---- MODULE Spec2Model ----
(***************************************************************************)
(* Verification model of the DC power-flow core of the repository          *)
(* (src/dc_power_flow): hierarchy resolution over converter-linked         *)
(* subnetworks, the orchestration pass, the droop fixed-point loops, cable *)
(* sizing, the scenario merge and the battery state-of-charge clamp.       *)
(*                                                                         *)
(* Each part of the program has its own specification over its own group   *)
(* of variables; the other groups stay at their idle values.               *)
(*   Spec       hierarchy resolution + one orchestration pass              *)
(*   SpecCable  adjust_cable_sizing on one subnetwork                      *)
(*   SpecMerge  merge_network_components / perform_comprehensive_sizing    *)
(*   SpecBess   interpolate_bess_p_droop                                   *)
(*   SpecDroop  PDU droop loop and asset droop loop                        *)
(***************************************************************************)
EXTENDS Integers, Sequences, FiniteSets, TLC

\* ------------------------------------------------------------------------
\* Bounds of the model
\* ------------------------------------------------------------------------
NumBuses == 3
MaxSubs == 3
MaxConv == 3

VARIABLES
    \* --- hierarchy / orchestration pass ---
    busSub,            \* bus -> index of the subnetwork holding it (separate_subnetworks)
    converter,         \* net.converter: sequence of [from_bus, to_bus]; the name is the row index
    gridSubs,          \* subnetworks whose ext_grid table has an in-service row
    network_dict,      \* subnetwork -> [up, down] link lists (find_upndownstream_networks)
    loadflowed_subs,   \* list of processed subnetworks of the running pass
    unprocessed,       \* what is left of the set the for loop of process_all_subnetworks iterates
    pc,                \* control position of perform_dc_load_flow
    \* --- element tables through the passes of perform_dc_load_flow ---
    net_ext_grid,      \* net.ext_grid of the network given to the call: sequence of [name, bus]
    net_load,          \* net.load of the network given to the call: set of [name, net, bus]
    sub_ext_grid,      \* subnetwork -> ext_grid table of network_dict[n]['network']
    sub_load,          \* subnetwork -> load table of network_dict[n]['network']
    res_sub,           \* subnetwork -> what its last solve was run on (its results)
    ipass,             \* i, the pass being run
    npass,             \* the number of passes the voltages of this network take
    call,              \* 1: first call, 2: call on the network the first returned
    first_result,      \* the network the first call returned
    result,            \* the network the current call returned
    solve_failed,      \* history: pp.runpp raised in process_subnetwork
    res_converter,     \* net.res_converter: per converter, the subnetworks that wrote its row this pass
    \* --- cable sizing of one subnetwork ---
    line,              \* subnet.line: line id -> [from_bus, to_bus]
    ext_grid,          \* subnet.ext_grid: sequence of [bus, in_service]
    cable_rank,        \* subnet.line.cable_rank: line id -> catalogue index or NoRank
    remaining,         \* lines the for loop of adjust_cable_sizing has not reached yet
    line_id,           \* the line being sized
    idx_new_cable,     \* adjust_single_cable locals
    idx_cable,
    load_flow_converge,
    res_ok,            \* res_line of line_id passes the loading and voltage tests
    solved,            \* history: [rank, out] of the solved states adjust_single_cable has tested
    cpc,               \* control position of adjust_cable_sizing
    \* --- scenario merge ---
    scenario,          \* the sized networks of scenarios 1..3
    storage_sized,     \* scenario 1 was run (storage_network is not None)
    combined_network,
    final_network,
    mpc,
    \* --- battery droop ---
    soc_init,          \* net.storage.soc_percent
    max_energy,        \* net.storage.max_e_mwh
    duration,          \* step duration, in minutes
    p_request,         \* droop-requested power np.interp(...)*p_setpoint
    p_droop,           \* returned power, a fraction <<num, den>>
    soc_final,         \* returned state of charge, a fraction <<num, den>>
    bpc,
    \* --- droop loops ---
    nPDU,              \* number of PDU-type converters (= PDU upstream links)
    pdu_i,             \* i, the pass counter of the PDU loop
    err,               \* summed |v_upstream - v_downstream|
    prev_diff_volt,
    diff_volt,
    ret,               \* who called perform_dc_load_flow
    nb_it,             \* iteration counter of the asset droop loop
    error,             \* asset loop error, in units of tol
    dpc,
    \* --- converter sizing ---
    tmp_cc,            \* the converter's catalogue: 'Nominal power (kW)' per row
    conv_type,         \* tmp_cc.loc[0, 'Converter type']
    power_kw,          \* power_mw * 1000, the observed power
    AC_DC_factor,      \* cable_factor[2], in percent
    converter_factor,  \* cable_factor[3], in percent
    new_c,             \* the row returned by select_converter_based_on_power
    conv_rank,         \* net.converter.conv_rank: a row of tmp_cc (1-based here), 0 for None
    conv_P,            \* net.converter.P, in kW
    spc,
    \* --- separation into subnetworks ---
    line_ends,         \* net.line: <<from_bus, to_bus>> of every line
    converter_ends,    \* net.converter: <<from_bus, to_bus>> of every converter
    subnetwork_list,   \* the returned list, each subnetwork as its set of buses
    tpc,
    \* --- time series ---
    power_profile,     \* the asset's power_profile, a 1-d array
    number_of_timestep,
    attr,              \* the asset's table: load, sgen or storage
    tstep,             \* t, the loop index of perform_timestep_dc_load_flow
    asset_p_mw,        \* the asset's p_mw, in units of its p_nom_mw
    warned,            \* update_network printed its warning in this step
    upc,
    \* --- converter power of an upstream link ---
    link_power,        \* tmp_net.res_ext_grid.p_mw.values[0], in kW
    eff_curve,         \* converter.efficiency: efficiency in percent per curve point
    stand_by_loss,     \* converter.stand_by_loss, in kW
    adjusted_power,    \* p_mw of the load installed upstream, a fraction <<num, den>>
    pl_mw,             \* res_converter.pl_mw, the recorded loss, a fraction
    kpc,
    \* --- state of charge over the time steps ---
    storage_name,      \* net.storage.name, per row
    storage_soc,       \* net.storage.soc_percent, per row
    storage_p_mw,      \* net.storage.p_mw, per row, a fraction <<num, den>> in kW
    storage_max_e,     \* net.storage.max_e_mwh, per row, in kWh
    step_minutes,      \* timestep, in minutes
    soc_list,          \* the list returned by the last droop_correction
    soc_t,             \* t
    soc_it,            \* nb_it
    qpc,
    \* --- storage sizing scenario ---
    sz_storage,        \* scenario_network.storage: name, bus, in_service per row
    sz_ext_grid,       \* scenario_network.ext_grid: bus, in_service per row
    sz_sized,          \* the storage rows sized so far, in order
    gpc

hvars == <<busSub, converter, gridSubs, network_dict, loadflowed_subs, unprocessed, pc>>
cvars == <<line, ext_grid, cable_rank, remaining, line_id, idx_new_cable, idx_cable,
           load_flow_converge, res_ok, solved, cpc>>
mvars == <<scenario, storage_sized, combined_network, final_network, mpc>>
bvars == <<soc_init, max_energy, duration, p_request, p_droop, soc_final, bpc>>
dvars == <<nPDU, pdu_i, err, prev_diff_volt, diff_volt, ret, nb_it, error, dpc>>

pvars == <<net_ext_grid, net_load, sub_ext_grid, sub_load, res_sub, ipass, npass, call,
           first_result, result, solve_failed, res_converter>>

svars == <<tmp_cc, conv_type, power_kw, AC_DC_factor, converter_factor, new_c,
           conv_rank, conv_P, spc>>
tvars == <<line_ends, converter_ends, subnetwork_list, tpc>>
uvars == <<power_profile, number_of_timestep, attr, tstep, asset_p_mw, warned, upc>>
kvars == <<link_power, eff_curve, stand_by_loss, adjusted_power, pl_mw, kpc>>
xvars == <<svars, tvars, uvars, kvars>>
qvars == <<storage_name, storage_soc, storage_p_mw, storage_max_e, step_minutes,
           soc_list, soc_t, soc_it, qpc>>
gvars == <<sz_storage, sz_ext_grid, sz_sized, gpc>>
yvars == <<qvars, gvars>>

vars == <<hvars, pvars, cvars, mvars, bvars, dvars, xvars, yvars>>

\* the parts of the program that a specification does not exercise
IdleHier ==
    /\ busSub = <<>> /\ converter = <<>> /\ gridSubs = {} /\ network_dict = <<>>
    /\ loadflowed_subs = <<>> /\ unprocessed = {} /\ pc = "idle"
NoResult == [ext_grid |-> <<>>, load |-> {}, res |-> <<>>]
IdlePass ==
    /\ net_ext_grid = <<>> /\ net_load = {} /\ sub_ext_grid = <<>> /\ sub_load = <<>>
    /\ res_sub = <<>> /\ ipass = 0 /\ npass = 0 /\ call = 0
    /\ first_result = NoResult /\ result = NoResult /\ solve_failed = FALSE /\ res_converter = <<>>
IdleCable ==
    /\ line = <<>> /\ ext_grid = <<>> /\ cable_rank = <<>> /\ remaining = {}
    /\ line_id = 0 /\ idx_new_cable = 0 /\ idx_cable = 0
    /\ load_flow_converge = TRUE /\ res_ok = TRUE /\ solved = <<>> /\ cpc = "idle"
IdleMerge ==
    /\ scenario = <<>> /\ storage_sized = FALSE /\ combined_network = <<>>
    /\ final_network = <<>> /\ mpc = "idle"
IdleBess ==
    /\ soc_init = 0 /\ max_energy = 0 /\ duration = 0 /\ p_request = 0
    /\ p_droop = <<0, 1>> /\ soc_final = <<0, 1>> /\ bpc = "idle"
IdleDroop ==
    /\ nPDU = 0 /\ pdu_i = 0 /\ err = 0 /\ prev_diff_volt = <<>> /\ diff_volt = <<>>
    /\ ret = "none" /\ nb_it = 0 /\ error = 0 /\ dpc = "idle"
IdleSelect ==
    /\ tmp_cc = <<>> /\ conv_type = "" /\ power_kw = 0 /\ AC_DC_factor = 0
    /\ converter_factor = 0 /\ new_c = 0 /\ conv_rank = 0 /\ conv_P = 0 /\ spc = "idle"
IdleSplit ==
    /\ line_ends = {} /\ converter_ends = {} /\ subnetwork_list = <<>> /\ tpc = "idle"
IdleProfile ==
    /\ power_profile = <<>> /\ number_of_timestep = 0 /\ attr = "" /\ tstep = 0
    /\ asset_p_mw = 0 /\ warned = FALSE /\ upc = "idle"
IdleLink ==
    /\ link_power = 0 /\ eff_curve = <<>> /\ stand_by_loss = 0
    /\ adjusted_power = <<0, 1>> /\ pl_mw = <<0, 1>> /\ kpc = "idle"
IdleX == IdleSelect /\ IdleSplit /\ IdleProfile /\ IdleLink
IdleSoc ==
    /\ storage_name = <<>> /\ storage_soc = <<>> /\ storage_p_mw = <<>>
    /\ storage_max_e = <<>> /\ step_minutes = 0 /\ soc_list = <<>>
    /\ soc_t = 0 /\ soc_it = 0 /\ qpc = "idle"
IdleGrid ==
    /\ sz_storage = <<>> /\ sz_ext_grid = <<>> /\ sz_sized = <<>>
    /\ gpc = "idle"
IdleY == IdleSoc /\ IdleGrid

\* ------------------------------------------------------------------------
\* Generic helpers
\* ------------------------------------------------------------------------
Range(s) == {s[i] : i \in 1..Len(s)}

RECURSIVE SetToSortedSeq(_)
SetToSortedSeq(S) ==
    IF S = {} THEN <<>>
    ELSE LET m == CHOOSE x \in S : \A y \in S : x <= y
         IN  <<m>> \o SetToSortedSeq(S \ {m})

RECURSIVE Flatten(_)
Flatten(ss) == IF ss = <<>> THEN <<>> ELSE Head(ss) \o Flatten(Tail(ss))

Buses == 0..(NumBuses - 1)

\* number of subnetworks of the current network
NumSubs(bs) == Cardinality({bs[b] : b \in Buses})
Subs(bs) == 0..(NumSubs(bs) - 1)

\* ------------------------------------------------------------------------
\* sorting_network: direct connections of every subnetwork through converters
\* a connection is <<remote subnetwork, remote bus, converter name>>
\* ------------------------------------------------------------------------
ConvIdx(conv) == [i \in 1..Len(conv) |-> i]

FromEntries(bs, conv, b) ==
    LET rows == SelectSeq(ConvIdx(conv), LAMBDA i : conv[i].from_bus = b)
    IN  [k \in 1..Len(rows) |-> <<bs[conv[rows[k]].to_bus], conv[rows[k]].to_bus, rows[k]>>]

ToEntries(bs, conv, b) ==
    LET rows == SelectSeq(ConvIdx(conv), LAMBDA i : conv[i].to_bus = b)
    IN  [k \in 1..Len(rows) |-> <<bs[conv[rows[k]].from_bus], conv[rows[k]].from_bus, rows[k]>>]

direct_connect_network(bs, conv, n) ==
    LET busesOfN == SetToSortedSeq({b \in Buses : bs[b] = n})
    IN  Flatten([k \in 1..Len(busesOfN) |->
                    FromEntries(bs, conv, busesOfN[k]) \o ToEntries(bs, conv, busesOfN[k])])

dic_of_subs(bs, conv) == [n \in Subs(bs) |-> direct_connect_network(bs, conv, n)]

\* ------------------------------------------------------------------------
\* find_upndownstream_networks
\* ------------------------------------------------------------------------
\* is_upstream: depth-first search over the connections that shares one
\* visited set along the whole search; returns the answer and the visited set
RECURSIVE is_upstream(_, _, _, _)
RECURSIVE is_upstream_scan(_, _, _, _, _)
is_upstream(dic, grids, network_id, visited) ==
    IF network_id \in grids
    THEN [res |-> TRUE, visited |-> visited]
    ELSE is_upstream_scan(dic, grids, dic[network_id], 1, visited \cup {network_id})

is_upstream_scan(dic, grids, conns, k, visited) ==
    IF k > Len(conns)
    THEN [res |-> FALSE, visited |-> visited]
    ELSE IF conns[k][1] \notin visited
         THEN LET r == is_upstream(dic, grids, conns[k][1], visited)
              IN  IF r.res THEN r
                  ELSE is_upstream_scan(dic, grids, conns, k + 1, r.visited)
         ELSE is_upstream_scan(dic, grids, conns, k + 1, visited)

classify_swapped(dic, grids, network_id) ==
    [up   |-> SelectSeq(dic[network_id],
                 LAMBDA c : ~ is_upstream(dic, grids, c[1], {network_id}).res),
     down |-> SelectSeq(dic[network_id],
                 LAMBDA c : is_upstream(dic, grids, c[1], {network_id}).res)]

\* the body of the loop over network_dict.items(): one subnetwork's lists
classify(dic, grids, network_id) ==
    [up   |-> SelectSeq(dic[network_id],
                 LAMBDA c : is_upstream(dic, grids, c[1], {network_id}).res),
     down |-> SelectSeq(dic[network_id],
                 LAMBDA c : ~ is_upstream(dic, grids, c[1], {network_id}).res)]

find_upndownstream_networks(dic, grids) ==
    [n \in DOMAIN dic |-> classify(dic, grids, n)]

sorting_network(bs, conv, grids) ==
    find_upndownstream_networks(dic_of_subs(bs, conv), grids)

\* ------------------------------------------------------------------------
\* Orchestration pass
\* ------------------------------------------------------------------------
all_downstream_processed_always(nd, network_id, done) == TRUE

all_downstream_processed(nd, network_id, done) ==
    \A k \in 1..Len(nd[network_id].down) : nd[network_id].down[k][1] \in Range(done)

\* add_upstream_ext_grids looks up, for every upstream link, the first
\* downstream link of the upstream subnetwork that points back; [..][0] on an
\* empty list raises IndexError
back_links(nd, network_id, upstream) ==
    SelectSeq(nd[upstream[1]].down, LAMBDA x : x[1] = network_id)

add_upstream_ext_grids_raises(nd, network_id) ==
    \E k \in 1..Len(nd[network_id].up) :
        back_links(nd, network_id, nd[network_id].up[k]) = <<>>

\* ------------------------------------------------------------------------
\* Temporary elements of the subnetworks and what a solve is run on
\* ------------------------------------------------------------------------
ConverterEmulation == "Converter emulation"
LoadOfNet == "Load of net"

UserLoads == {[name |-> "load", net |-> 0 - 1, bus |-> b] : b \in Buses}

\* one in-service grid at the first bus of every subnetwork of grids
UserExtGrids(bs, grids) ==
    LET gs == SetToSortedSeq(grids)
    IN  [k \in 1..Len(gs) |->
            [name |-> "grid", bus |-> CHOOSE b \in Buses :
                 bs[b] = gs[k] /\ \A c \in Buses : bs[c] = gs[k] => b <= c]]

NoRes == [pass |-> 0, ext_grid |-> <<>>, load |-> {}, v |-> "none"]

\* pp.select_subnet: the elements at the buses of the subnetwork, no results
select_subnet_ext_grid(bs, eg, n) == SelectSeq(eg, LAMBDA g : bs[g.bus] = n)
select_subnet_load(bs, ld, n) == {l \in ld : bs[l.bus] = n}
select_subnet_results(bs, n) == NoRes

\* add_upstream_ext_grids: one temporary grid, at the bus of the first
\* upstream link, unless the subnetwork already has one
add_upstream_ext_grids(nd, network_id, eg) ==
    IF Len(nd[network_id].up) = 0 \/ \E k \in 1..Len(eg) : eg[k].name = ConverterEmulation
    THEN eg
    ELSE Append(eg, [name |-> ConverterEmulation,
                     bus |-> back_links(nd, network_id, nd[network_id].up[1])[1][2]])

\* the voltage given to the temporary grid: flat, or read from the results
\* the upstream subnetwork holds from the pass before
upstream_voltage(nd, network_id, rs) ==
    IF Len(nd[network_id].up) = 0 THEN "none"
    ELSE IF rs[nd[network_id].up[Len(nd[network_id].up)][1]] = NoRes THEN "flat" ELSE "stored"

\* an equivalent load dropped into every other subnetwork
update_upstream_network_to_all(nd, network_id, ld) ==
    [u \in DOMAIN ld |->
        IF u = network_id THEN ld[u]
        ELSE ld[u] \cup {[name |-> LoadOfNet, net |-> network_id, bus |-> 0]}]

\* add_load_to_upstream over the upstream links: a load named after the
\* solved subnetwork is created at the bus of the first link to each upstream
\* subnetwork, or only updated if it exists already
update_upstream_network(nd, network_id, ld) ==
    [u \in DOMAIN ld |->
        LET links == SelectSeq(nd[network_id].up, LAMBDA x : x[1] = u)
        IN  IF links = <<>> \/ \E l \in ld[u] : l.name = LoadOfNet /\ l.net = network_id
            THEN ld[u]
            ELSE ld[u] \cup {[name |-> LoadOfNet, net |-> network_id, bus |-> links[1][2]]}]

\* merge_networks over the subnetworks in the order of their ids
RECURSIVE merge_ext_grid(_, _)
merge_ext_grid(seg, k) ==
    IF k \notin DOMAIN seg THEN <<>> ELSE seg[k] \o merge_ext_grid(seg, k + 1)

merge_networks(seg, sld, rs) ==
    [ext_grid |-> merge_ext_grid(seg, 0), load |-> UNION {sld[n] : n \in DOMAIN sld}, res |-> rs]

\* initialize_converter_results: np.empty, no row written yet
initialize_converter_results(conv) == [c \in 1..Len(conv) |-> <<>>]

\* as update_converter_results, but over the links of both directions
update_converter_results_both_sides(nd, network_id, rc) ==
    [c \in DOMAIN rc |->
        rc[c] \o [k \in 1..Len(SelectSeq(nd[network_id].up \o nd[network_id].down,
                                          LAMBDA x : x[3] = c))
                     |-> network_id]]

\* update_converter_results over the upstream links of the solved
\* subnetwork: the row of each link's converter is written
update_converter_results(nd, network_id, rc) ==
    [c \in DOMAIN rc |->
        rc[c] \o [k \in 1..Len(SelectSeq(nd[network_id].up, LAMBDA x : x[3] = c))
                     |-> network_id]]

remove_temporary_loads(ld) == {l \in ld : l.name # LoadOfNet}

remove_temporary_ext_grids_keep(eg) == eg

remove_temporary_ext_grids(eg) == SelectSeq(eg, LAMBDA g : g.name # ConverterEmulation)

clean_network_keep_loads(net_res) ==
    [ext_grid |-> remove_temporary_ext_grids(net_res.ext_grid),
     load |-> net_res.load,
     res |-> net_res.res]

clean_network(net_res) ==
    [ext_grid |-> remove_temporary_ext_grids(net_res.ext_grid),
     load |-> remove_temporary_loads(net_res.load),
     res |-> net_res.res]

\* where control goes when pp.runpp raises in process_subnetwork: no handler
solver_failure_swallowed == "for"

solver_failure_pc == "not_converged"

\* ------------------------------------------------------------------------
\* Initial networks: every bus in one subnetwork (numbered in bus order),
\* converters joining buses of different subnetworks
\* ------------------------------------------------------------------------
BusSubChoices ==
    {bs \in [Buses -> 0..(MaxSubs - 1)] :
        /\ bs[0] = 0
        /\ \A b \in Buses \ {0} : bs[b] \in {bs[b - 1], bs[b - 1] + 1}}

ConvRows(bs) ==
    {[from_bus |-> f, to_bus |-> t] : <<f, t>> \in {p \in Buses \X Buses : bs[p[1]] # bs[p[2]]}}

RowLeq(r1, r2) ==
    \/ r1.from_bus < r2.from_bus
    \/ r1.from_bus = r2.from_bus /\ r1.to_bus <= r2.to_bus

ConvTables(bs) ==
    UNION {{c \in [1..n -> ConvRows(bs)] : \A i \in 1..(n - 1) : RowLeq(c[i], c[i + 1])}
               : n \in 0..MaxConv}

InitHier ==
    /\ busSub \in BusSubChoices
    /\ converter \in ConvTables(busSub)
    /\ gridSubs \in SUBSET Subs(busSub)
    /\ network_dict = <<>>
    /\ loadflowed_subs = <<>>
    /\ unprocessed = {}
    /\ pc = "start"
    /\ net_ext_grid = UserExtGrids(busSub, gridSubs)
    /\ net_load = UserLoads
    /\ sub_ext_grid = <<>>
    /\ sub_load = <<>>
    /\ res_sub = <<>>
    /\ ipass = 0
    /\ call = 1
    /\ first_result = NoResult
    /\ result = NoResult
    /\ solve_failed = FALSE
    /\ res_converter = <<>>

\* perform_dc_load_flow, lines 265-266 and 292-293
Sort ==
    /\ pc = "start"
    /\ network_dict' = sorting_network(busSub, converter, gridSubs)
    /\ loadflowed_subs' = <<>>
    /\ pc' = "while"
    /\ sub_ext_grid' = [n \in Subs(busSub) |-> select_subnet_ext_grid(busSub, net_ext_grid, n)]
    /\ sub_load' = [n \in Subs(busSub) |-> select_subnet_load(busSub, net_load, n)]
    /\ res_sub' = [n \in Subs(busSub) |-> select_subnet_results(busSub, n)]
    /\ ipass' = 1
    /\ UNCHANGED <<busSub, converter, gridSubs, unprocessed>>
    /\ UNCHANGED <<net_ext_grid, net_load, npass, call, first_result, result, solve_failed>>
    /\ res_converter' = initialize_converter_results(converter)
    /\ UNCHANGED <<cvars, mvars, bvars, dvars, xvars, yvars>>

\* process_all_subnetworks: the while test and the set the for loop walks
WhileTest ==
    /\ pc = "while"
    /\ IF \A n \in DOMAIN network_dict : n \in Range(loadflowed_subs)
       THEN /\ pc' = "done"
            /\ unprocessed' = {}
       ELSE /\ pc' = "for"
            /\ unprocessed' = (DOMAIN network_dict) \ Range(loadflowed_subs)
    /\ UNCHANGED <<busSub, converter, gridSubs, network_dict, loadflowed_subs>>
    /\ UNCHANGED pvars
    /\ UNCHANGED <<cvars, mvars, bvars, dvars, xvars, yvars>>

\* one iteration of the for loop: a subnetwork that is not ready is skipped
ForSkip(network_id) ==
    /\ pc = "for"
    /\ network_id \in unprocessed
    /\ ~ all_downstream_processed(network_dict, network_id, loadflowed_subs)
    /\ unprocessed' = unprocessed \ {network_id}
    /\ UNCHANGED <<busSub, converter, gridSubs, network_dict, loadflowed_subs, pc>>
    /\ UNCHANGED pvars
    /\ UNCHANGED <<cvars, mvars, bvars, dvars, xvars, yvars>>

\* process_subnetwork on a ready subnetwork: temporary grids, solve, append
ProcessSubnetwork(network_id) ==
    /\ pc = "for"
    /\ network_id \in unprocessed
    /\ all_downstream_processed(network_dict, network_id, loadflowed_subs)
    /\ ~ add_upstream_ext_grids_raises(network_dict, network_id)
    /\ loadflowed_subs' = Append(loadflowed_subs, network_id)
    /\ unprocessed' = unprocessed \ {network_id}
    /\ sub_ext_grid' = [sub_ext_grid EXCEPT ![network_id] =
                            add_upstream_ext_grids(network_dict, network_id, @)]
    /\ res_sub' = [res_sub EXCEPT ![network_id] =
                      [pass |-> ipass,
                       ext_grid |-> add_upstream_ext_grids(network_dict, network_id,
                                                           sub_ext_grid[network_id]),
                       load |-> sub_load[network_id],
                       v |-> upstream_voltage(network_dict, network_id, res_sub)]]
    /\ sub_load' = update_upstream_network(network_dict, network_id, sub_load)
    /\ UNCHANGED <<busSub, converter, gridSubs, network_dict, pc>>
    /\ UNCHANGED <<net_ext_grid, net_load, ipass, npass, call, first_result, result, solve_failed>>
    /\ res_converter' = update_converter_results(network_dict, network_id, res_converter)
    /\ UNCHANGED <<cvars, mvars, bvars, dvars, xvars, yvars>>

\* process_subnetwork aborted by the IndexError of add_upstream_ext_grids
ProcessSubnetworkRaises(network_id) ==
    /\ pc = "for"
    /\ network_id \in unprocessed
    /\ all_downstream_processed(network_dict, network_id, loadflowed_subs)
    /\ add_upstream_ext_grids_raises(network_dict, network_id)
    /\ pc' = "error"
    /\ UNCHANGED <<busSub, converter, gridSubs, network_dict, loadflowed_subs, unprocessed>>
    /\ UNCHANGED pvars
    /\ UNCHANGED <<cvars, mvars, bvars, dvars, xvars, yvars>>

ForEnd ==
    /\ pc = "for"
    /\ unprocessed = {}
    /\ pc' = "while"
    /\ UNCHANGED <<busSub, converter, gridSubs, network_dict, loadflowed_subs, unprocessed>>
    /\ UNCHANGED pvars
    /\ UNCHANGED <<cvars, mvars, bvars, dvars, xvars, yvars>>

Init == InitHier /\ npass = 1 /\ IdleCable /\ IdleMerge /\ IdleBess /\ IdleDroop /\ IdleX /\ IdleY

Next ==
    \/ Sort
    \/ WhileTest
    \/ \E n \in unprocessed : ForSkip(n)
    \/ \E n \in unprocessed : ProcessSubnetwork(n)
    \/ \E n \in unprocessed : ProcessSubnetworkRaises(n)
    \/ ForEnd

Spec == Init /\ [][Next]_vars

\* ------------------------------------------------------------------------
\* Properties of hierarchy resolution and of the orchestration pass
\* ------------------------------------------------------------------------
RECURSIVE ReachSet(_, _)
ReachSet(edges, S) ==
    LET T == S \cup {e[2] : e \in {d \in edges : d[1] \in S}}
    IN  IF T = S THEN S ELSE ReachSet(edges, T)

Acyclic(edges) == \A e \in edges : e[1] \notin ReachSet(edges, {e[2]})

\* converter connections between subnetworks, both directions
ConverterEdges ==
    UNION {{<<busSub[converter[i].from_bus], busSub[converter[i].to_bus]>>,
            <<busSub[converter[i].to_bus], busSub[converter[i].from_bus]>>}
               : i \in 1..Len(converter)}

ConvertersConnected == ReachSet(ConverterEdges, {0}) = Subs(busSub)

OneActiveGrid == Cardinality(gridSubs) = 1

Sorted == pc # "start"

UpLinks(n) == {<<n, network_dict[n].up[k][1], network_dict[n].up[k][3]>>
                  : k \in 1..Len(network_dict[n].up)}
DownLinks(n) == {<<n, network_dict[n].down[k][1], network_dict[n].down[k][3]>>
                  : k \in 1..Len(network_dict[n].down)}
AllUpLinks == UNION {UpLinks(n) : n \in DOMAIN network_dict}
AllDownLinks == UNION {DownLinks(n) : n \in DOMAIN network_dict}

NoUpstream == {n \in DOMAIN network_dict : network_dict[n].up = <<>>}

\* a link <<A, B, c>> is upstream for A iff <<B, A, c>> is downstream for B
ConsistentLinks ==
    /\ \A l \in AllUpLinks : <<l[2], l[1], l[3]>> \in AllDownLinks
    /\ \A l \in AllDownLinks : <<l[2], l[1], l[3]>> \in AllUpLinks

DownstreamGraph == {<<l[1], l[2]>> : l \in AllDownLinks}

AllProcessed == \A n \in DOMAIN network_dict : n \in Range(loadflowed_subs)

\* C1: with one active external grid and a connected converter graph, exactly
\* one subnetwork has an empty upstream list and every connection is upstream
\* on one side iff it is downstream on the other
C1_OneRootConsistent ==
    (Sorted /\ OneActiveGrid /\ ConvertersConnected)
        => (Cardinality(NoUpstream) = 1 /\ ConsistentLinks)

\* C2 as stated: for every converter topology the downstream links form no
\* cycle and every subnetwork without the active grid has an upstream link
C2_AcyclicAnyTopology ==
    Sorted => /\ Acyclic(DownstreamGraph)
              /\ \A n \in DOMAIN network_dict : n \notin gridSubs => network_dict[n].up # <<>>

EveryoneReachesGrid ==
    \A n \in Subs(busSub) : ReachSet(ConverterEdges, {n}) \cap gridSubs # {}

\* C2 amended: the same postcondition for every converter topology in which
\* each subnetwork is connected through converters to a subnetwork that
\* holds an active grid
C2_AcyclicWhenRooted ==
    (Sorted /\ EveryoneReachesGrid)
        => /\ Acyclic(DownstreamGraph)
           /\ \A n \in DOMAIN network_dict : n \notin gridSubs => network_dict[n].up # <<>>

C2_Witness ==
    /\ Sorted /\ OneActiveGrid /\ ConvertersConnected
    /\ NumSubs(busSub) = 3
    /\ Acyclic(ConverterEdges) = FALSE
    /\ Cardinality({<<e[1], e[2]>> : e \in ConverterEdges}) = 6
    /\ DownstreamGraph # {}

\* C3: a subnetwork is appended to the processed list once, after all the
\* subnetworks of its downstream links; a finished pass has processed all
C3_DownstreamFirstOnce ==
    /\ \A k \in 1..Len(loadflowed_subs) :
          /\ \A j \in 1..Len(loadflowed_subs) : j # k => loadflowed_subs[j] # loadflowed_subs[k]
          /\ \A l \in DownLinks(loadflowed_subs[k]) :
                \E j \in 1..(k - 1) : loadflowed_subs[j] = l[2]
    /\ pc = "done" => Range(loadflowed_subs) = DOMAIN network_dict

C3_Witness ==
    /\ pc = "done"
    /\ Len(loadflowed_subs) = 3
    /\ \E n \in DOMAIN network_dict : Len(network_dict[n].down) >= 2

\* C4: with one active grid and connected converters the pass never aborts on
\* a missing link and, until all are processed, some unprocessed subnetwork
\* is ready
C4_PassProgresses ==
    (Sorted /\ OneActiveGrid /\ ConvertersConnected)
        => /\ pc # "error"
           /\ ~ AllProcessed =>
                 \E n \in (DOMAIN network_dict) \ Range(loadflowed_subs) :
                     /\ all_downstream_processed(network_dict, n, loadflowed_subs)
                     /\ ~ add_upstream_ext_grids_raises(network_dict, n)

\* C10: without exactly one subnetwork holding an active grid no pass is
\* started and no subnetwork is solved
C10_NoPassOnBadRoots ==
    ~ OneActiveGrid => (pc \in {"start", "config_error"} /\ loadflowed_subs = <<>>)

\* the pass of a tree of converters (no converter cycle) always completes
TreePassProgresses ==
    (Sorted /\ OneActiveGrid /\ ConvertersConnected
        /\ Cardinality({{e[1], e[2]} : e \in ConverterEdges}) = NumSubs(busSub) - 1)
        => (pc # "error" /\ ConsistentLinks)

\* ------------------------------------------------------------------------
\* Whole calls of perform_dc_load_flow on converter trees with one grid:
\* passes, solver failure, merge and clean, and a second call on the result
\* ------------------------------------------------------------------------
MaxPasses == 2

ConverterTree ==
    /\ OneActiveGrid
    /\ ConvertersConnected
    /\ Cardinality({{e[1], e[2]} : e \in ConverterEdges}) = NumSubs(busSub) - 1

\* pp.runpp raises in process_subnetwork, after the temporary grid was added
ProcessSubnetworkNotConverged(network_id) ==
    /\ pc = "for"
    /\ network_id \in unprocessed
    /\ all_downstream_processed(network_dict, network_id, loadflowed_subs)
    /\ ~ add_upstream_ext_grids_raises(network_dict, network_id)
    /\ sub_ext_grid' = [sub_ext_grid EXCEPT ![network_id] =
                            add_upstream_ext_grids(network_dict, network_id, @)]
    /\ solve_failed' = TRUE
    /\ pc' = solver_failure_pc
    /\ UNCHANGED <<busSub, converter, gridSubs, network_dict, loadflowed_subs, unprocessed>>
    /\ UNCHANGED <<net_ext_grid, net_load, sub_load, res_sub, ipass, npass, call,
                   first_result, result, res_converter>>
    /\ UNCHANGED <<cvars, mvars, bvars, dvars, xvars, yvars>>

\* the PDU loop goes round: the subnetworks keep their elements and results
NextPass ==
    /\ pc = "done"
    /\ ipass < npass
    /\ ipass' = ipass + 1
    /\ loadflowed_subs' = <<>>
    /\ pc' = "while"
    /\ UNCHANGED <<busSub, converter, gridSubs, network_dict, unprocessed>>
    /\ UNCHANGED <<net_ext_grid, net_load, sub_ext_grid, sub_load, res_sub, npass, call,
                   first_result, result, solve_failed>>
    /\ res_converter' = initialize_converter_results(converter)
    /\ UNCHANGED <<cvars, mvars, bvars, dvars, xvars, yvars>>

\* lines 297-304: merge the subnetworks, clean, return
Return ==
    /\ pc = "done"
    /\ ipass = npass
    /\ result' = clean_network(merge_networks(sub_ext_grid, sub_load, res_sub))
    /\ pc' = "returned"
    /\ UNCHANGED <<busSub, converter, gridSubs, network_dict, loadflowed_subs, unprocessed>>
    /\ UNCHANGED <<net_ext_grid, net_load, sub_ext_grid, sub_load, res_sub, ipass, npass, call,
                   first_result, solve_failed, res_converter>>
    /\ UNCHANGED <<cvars, mvars, bvars, dvars, xvars, yvars>>

\* perform_dc_load_flow is called again on the network it returned
SecondCall ==
    /\ pc = "returned"
    /\ call = 1
    /\ call' = 2
    /\ first_result' = result
    /\ result' = NoResult
    /\ net_ext_grid' = result.ext_grid
    /\ net_load' = result.load
    /\ gridSubs' = {busSub[result.ext_grid[k].bus] : k \in 1..Len(result.ext_grid)}
    /\ network_dict' = <<>>
    /\ loadflowed_subs' = <<>>
    /\ ipass' = 0
    /\ pc' = "start"
    /\ UNCHANGED <<busSub, converter, unprocessed>>
    /\ UNCHANGED <<sub_ext_grid, sub_load, res_sub, npass, solve_failed, res_converter>>
    /\ UNCHANGED <<cvars, mvars, bvars, dvars, xvars, yvars>>

PassStart ==
    /\ InitHier /\ ConverterTree /\ npass \in 1..MaxPasses
    /\ IdleCable /\ IdleMerge /\ IdleBess /\ IdleDroop /\ IdleX /\ IdleY

NextPasses ==
    \/ Sort
    \/ WhileTest
    \/ \E n \in unprocessed : ForSkip(n)
    \/ \E n \in unprocessed : ProcessSubnetwork(n)
    \/ \E n \in unprocessed : ProcessSubnetworkNotConverged(n)
    \/ ForEnd
    \/ NextPass
    \/ Return
    \/ SecondCall

SpecPass == PassStart /\ [][NextPasses]_vars

HasTemporary(net) ==
    \/ \E k \in 1..Len(net.ext_grid) : net.ext_grid[k].name = ConverterEmulation
    \/ \E l \in net.load : l.name = LoadOfNet

\* C12: a solver failure in process_subnetwork ends the call where it was
\* raised: control never comes back into the pass and no network is returned
C12_SolverFailurePropagates ==
    solve_failed => (pc = "not_converged" /\ result = NoResult)

\* the second subnetwork of a pass fails to solve
C12_Witness ==
    /\ solve_failed
    /\ pc = "not_converged"
    /\ Len(loadflowed_subs) >= 1
    /\ call = 1

\* C14: the call on the returned network starts from a network without any
\* temporary grid or equivalent load of the first call, ends like the first
\* one and returns the same elements and the same results
C14_Idempotent ==
    /\ call = 2 => pc # "error"
    /\ call = 2 => ~HasTemporary([ext_grid |-> net_ext_grid, load |-> net_load])
    /\ (call = 2 /\ pc = "returned") => result = first_result

\* two passes over three subnetworks, twice
C14_Witness ==
    /\ call = 2
    /\ pc = "returned"
    /\ NumSubs(busSub) = 3
    /\ npass = 2
    /\ HasTemporary(merge_networks(sub_ext_grid, sub_load, res_sub))
    /\ result = first_result

\* C17: the returned network holds no temporary grid and no temporary load,
\* and holds every external grid and load of the network given to the call
C17_NoTemporaryLeft ==
    pc = "returned" =>
        /\ ~ HasTemporary(result)
        /\ result.ext_grid = net_ext_grid
        /\ result.load = net_load

\* the subnetworks did hold a temporary grid and temporary loads
C17_Witness ==
    /\ pc = "returned"
    /\ call = 1
    /\ ipass = 2
    /\ \E n \in DOMAIN sub_load : \E l \in sub_load[n] : l.name = LoadOfNet
    /\ \E n \in DOMAIN sub_ext_grid : \E k \in 1..Len(sub_ext_grid[n]) :
           sub_ext_grid[n][k].name = ConverterEmulation
    /\ ~ HasTemporary(result)

\* ------------------------------------------------------------------------
\* Cable sizing of one subnetwork (adjust_cable_sizing)
\* ------------------------------------------------------------------------
CatalogueLen == 3
NumCableBuses == 3
NoRank == -1

CableBuses == 0..(NumCableBuses - 1)
LineIds == 1..(NumCableBuses - 1)

\* a tree of lines: line l joins bus l to a bus of smaller index
LineTables ==
    {t \in [LineIds -> [from_bus : CableBuses, to_bus : CableBuses]] :
        \A l \in LineIds : t[l].to_bus = l /\ t[l].from_bus < l}

\* the in-service grid sits at bus 0; the table may also hold another row
\* before it (a grid taken out of service) or after it
ExtGridTables ==
    {<<[bus |-> 0, in_service |-> TRUE]>>}
    \cup {<<[bus |-> d, in_service |-> FALSE], [bus |-> 0, in_service |-> TRUE]>> : d \in CableBuses}
    \cup {<<[bus |-> 0, in_service |-> TRUE], [bus |-> d, in_service |-> a]>> :
             d \in CableBuses, a \in BOOLEAN}

RECURSIVE BusChain(_, _)
BusChain(t, b) == IF b = 0 THEN {0} ELSE {b} \cup BusChain(t, t[b].from_bus)

\* nx.shortest_path on a tree: the lines of the only path between two buses
PathLines(t, u, v) == {l \in DOMAIN t : (l \in BusChain(t, u)) # (l \in BusChain(t, v))}

MinOf(a, b) == IF a <= b THEN a ELSE b

\* get_bus_distances: hops from the bus of the first row of ext_grid
get_bus_distances(t, eg) == [b \in CableBuses |-> Cardinality(PathLines(t, b, eg[1].bus))]

line_distance(t, eg, l) ==
    MinOf(get_bus_distances(t, eg)[t[l].from_bus], get_bus_distances(t, eg)[t[l].to_bus])

\* find_lines_between_given_line_and_ext_grid: the path from the nearer end
\* of the line to the bus of the first in-service row of ext_grid
ext_grid_node(eg) == SelectSeq(eg, LAMBDA g : g.in_service)[1].bus

find_lines_between_given_line_and_ext_grid(t, eg, l) ==
    LET paths_from == PathLines(t, t[l].from_bus, ext_grid_node(eg))
        paths_to   == PathLines(t, t[l].to_bus, ext_grid_node(eg))
    IN  IF Cardinality(paths_from) > Cardinality(paths_to) THEN paths_to ELSE paths_from

lines_to_bump_none(t, eg, rank, l) == {}

\* a bump that also takes the path lines that have no rank
lines_to_bump_unranked(t, eg, rank, l) ==
    {m \in find_lines_between_given_line_and_ext_grid(t, eg, l) : rank[m] < rank[l]}

\* a bump that also takes the path lines of the same rank
lines_to_bump_equal(t, eg, rank, l) ==
    {m \in find_lines_between_given_line_and_ext_grid(t, eg, l) :
        rank[m] # NoRank /\ m # l /\ rank[m] <= rank[l]}

\* the lines check_downstream_line_size bumps one catalogue step
lines_to_bump(t, eg, rank, l) ==
    {m \in find_lines_between_given_line_and_ext_grid(t, eg, l) :
        rank[m] # NoRank /\ rank[m] < rank[l]}

bump(rank, ms) == [m \in DOMAIN rank |-> IF m \in ms THEN rank[m] + 1 ELSE rank[m]]

trial_continues == res_ok /\ idx_new_cable >= 1 /\ load_flow_converge

InitCable ==
    /\ line \in LineTables
    /\ ext_grid \in ExtGridTables
    /\ cable_rank \in [LineIds -> {NoRank, CatalogueLen - 1}]
    /\ remaining = LineIds
    /\ line_id = 0
    /\ idx_new_cable = 0
    /\ idx_cable = 0
    /\ load_flow_converge = TRUE
    /\ res_ok = TRUE
    /\ solved = <<>>
    /\ cpc = "for"

\* the for loop over the lines sorted by distance: a line without rank is skipped
SkipLine(l) ==
    /\ cpc = "for"
    /\ l \in remaining
    /\ \A m \in remaining : line_distance(line, ext_grid, l) <= line_distance(line, ext_grid, m)
    /\ cable_rank[l] = NoRank
    /\ remaining' = remaining \ {l}
    /\ UNCHANGED <<line, ext_grid, cable_rank, line_id, idx_new_cable, idx_cable,
                   load_flow_converge, res_ok, solved, cpc>>
    /\ UNCHANGED <<hvars, pvars, mvars, bvars, dvars, xvars, yvars>>

TakeLine(l) ==
    /\ cpc = "for"
    /\ l \in remaining
    /\ \A m \in remaining : line_distance(line, ext_grid, l) <= line_distance(line, ext_grid, m)
    /\ cable_rank[l] # NoRank
    /\ remaining' = remaining \ {l}
    /\ line_id' = l
    /\ cpc' = "adjust"
    /\ UNCHANGED <<line, ext_grid, cable_rank, idx_new_cable, idx_cable,
                   load_flow_converge, res_ok, solved>>
    /\ UNCHANGED <<hvars, pvars, mvars, bvars, dvars, xvars, yvars>>

EndFor ==
    /\ cpc = "for"
    /\ remaining = {}
    /\ cpc' = "sized"
    /\ UNCHANGED <<line, ext_grid, cable_rank, remaining, line_id, idx_new_cable, idx_cable,
                   load_flow_converge, res_ok, solved>>
    /\ UNCHANGED <<hvars, pvars, mvars, bvars, dvars, xvars, yvars>>

\* adjust_single_cable, lines 674-677; ok is what the last solve says of the line
EnterAdjust(ok) ==
    /\ cpc = "adjust"
    /\ idx_new_cable' = cable_rank[line_id]
    /\ idx_cable' = cable_rank[line_id]
    /\ load_flow_converge' = TRUE
    /\ res_ok' = ok
    /\ solved' = <<[rank |-> cable_rank[line_id], out |-> IF ok THEN "feasible" ELSE "violates"]>>
    /\ cpc' = "trial"
    /\ UNCHANGED <<line, ext_grid, cable_rank, remaining, line_id>>
    /\ UNCHANGED <<hvars, pvars, mvars, bvars, dvars, xvars, yvars>>

\* one turn of the while loop, lines 679-694, with the outcome of the solve
Trial(out) ==
    /\ cpc = "trial"
    /\ trial_continues
    /\ idx_cable' = idx_new_cable
    /\ idx_new_cable' = idx_new_cable - 1
    /\ cable_rank' = [cable_rank EXCEPT ![line_id] = idx_new_cable - 1]
    /\ IF out = "raises"
       THEN load_flow_converge' = FALSE /\ UNCHANGED res_ok
       ELSE res_ok' = (out = "feasible") /\ UNCHANGED load_flow_converge
    /\ solved' = Append(solved, [rank |-> idx_new_cable - 1, out |-> out])
    /\ UNCHANGED <<line, ext_grid, remaining, line_id, cpc>>
    /\ UNCHANGED <<hvars, pvars, mvars, bvars, dvars, xvars, yvars>>

restored_rank_keep_trial == cable_rank

restored_rank ==
    IF ~ (res_ok /\ load_flow_converge)
    THEN [cable_rank EXCEPT ![line_id] = idx_cable]
    ELSE cable_rank

\* lines 696-705: restore the previous size if needed, then solve
Restore ==
    /\ cpc = "trial"
    /\ ~ trial_continues
    /\ cable_rank' = restored_rank
    /\ cpc' = "check"
    /\ UNCHANGED <<line, ext_grid, remaining, line_id, idx_new_cable, idx_cable,
                   load_flow_converge, res_ok, solved>>
    /\ UNCHANGED <<hvars, pvars, mvars, bvars, dvars, xvars, yvars>>

\* the solve of line 704 is outside the try block
RestoreSolveRaises ==
    /\ cpc = "trial"
    /\ ~ trial_continues
    /\ cable_rank' = restored_rank
    /\ cpc' = "failed"
    /\ UNCHANGED <<line, ext_grid, remaining, line_id, idx_new_cable, idx_cable,
                   load_flow_converge, res_ok, solved>>
    /\ UNCHANGED <<hvars, pvars, mvars, bvars, dvars, xvars, yvars>>

\* check_downstream_line_size; its result ends or repeats the while of line 650
CheckDownstream ==
    /\ cpc = "check"
    /\ cable_rank' = bump(cable_rank, lines_to_bump(line, ext_grid, cable_rank, line_id))
    /\ cpc' = IF lines_to_bump(line, ext_grid, cable_rank, line_id) = {} THEN "for" ELSE "adjust"
    /\ UNCHANGED <<line, ext_grid, remaining, line_id, idx_new_cable, idx_cable,
                   load_flow_converge, res_ok, solved>>
    /\ UNCHANGED <<hvars, pvars, mvars, bvars, dvars, xvars, yvars>>

\* the solve of line 732 raises
CheckSolveRaises ==
    /\ cpc = "check"
    /\ cable_rank' = bump(cable_rank, lines_to_bump(line, ext_grid, cable_rank, line_id))
    /\ cpc' = "failed"
    /\ UNCHANGED <<line, ext_grid, remaining, line_id, idx_new_cable, idx_cable,
                   load_flow_converge, res_ok, solved>>
    /\ UNCHANGED <<hvars, pvars, mvars, bvars, dvars, xvars, yvars>>

\* line 725 compares the rank of a line that has none (None < int)
CheckCompareRaises ==
    /\ cpc = "check"
    /\ \E m \in find_lines_between_given_line_and_ext_grid(line, ext_grid, line_id) :
           cable_rank[m] = NoRank
    /\ cpc' = "type_error"
    /\ UNCHANGED <<line, ext_grid, cable_rank, remaining, line_id, idx_new_cable, idx_cable,
                   load_flow_converge, res_ok, solved>>
    /\ UNCHANGED <<hvars, pvars, mvars, bvars, dvars, xvars, yvars>>

NextCable ==
    \/ \E l \in LineIds : SkipLine(l)
    \/ \E l \in LineIds : TakeLine(l)
    \/ EndFor
    \/ \E ok \in BOOLEAN : EnterAdjust(ok)
    \/ \E out \in {"feasible", "violates", "raises"} : Trial(out)
    \/ Restore
    \/ RestoreSolveRaises
    \/ CheckDownstream
    \/ CheckSolveRaises
    \/ CheckCompareRaises

CableStart == IdleHier /\ IdlePass /\ InitCable /\ IdleMerge /\ IdleBess /\ IdleDroop /\ IdleX /\ IdleY

SpecCable == CableStart /\ [][NextCable]_vars

\* the lines strictly between a line and the active external grid
ActiveGridBus == ext_grid_node(ext_grid)
LinesToActiveGrid(l) == PathLines(line, line[l].to_bus, ActiveGridBus) \ {l}

PathNotSmaller ==
    \A l \in LineIds : cable_rank[l] # NoRank =>
        \A m \in LinesToActiveGrid(l) :
            cable_rank[m] # NoRank => cable_rank[m] >= cable_rank[l]

\* C5: when cable sizing has completed, no line on the path between a ranked
\* line and the active external grid has a smaller cable_rank than that line
C5_PathNotSmallerWhenSized == cpc = "sized" => PathNotSmaller

\* the same when distances are measured from the active grid's bus
SizedFromActiveGrid ==
    (cpc = "sized" /\ ext_grid[1].bus = ActiveGridBus) => PathNotSmaller

\* C11: a solver failure while cable sizing re-solves a subnetwork never
\* leaves adjust_cable_sizing as an exception
C11_SolverFailureContained == cpc # "failed"

LastSolved == solved[Len(solved)]

\* C18: a trial phase steps down one rank at a time, only after a feasible
\* solved state; a violating or failing trial at rank r leaves the line at
\* r + 1, no violation leaves it at rank 0, an infeasible start keeps the rank
C18_TrialPhase ==
    cpc = "check" =>
        /\ \A j \in 1..Len(solved) : solved[j].rank = solved[1].rank - (j - 1)
        /\ \A j \in 1..(Len(solved) - 1) : solved[j].out = "feasible"
        /\ LastSolved.out # "feasible" =>
              cable_rank[line_id] = IF Len(solved) = 1 THEN solved[1].rank ELSE LastSolved.rank + 1
        /\ LastSolved.out = "feasible" => (LastSolved.rank = 0 /\ cable_rank[line_id] = 0)

\* two feasible trials from rank 2 is the floor; here the second trial fails
C18_Witness ==
    /\ cpc = "check"
    /\ Len(solved) = 3
    /\ solved[1] = [rank |-> 2, out |-> "feasible"]
    /\ solved[2] = [rank |-> 1, out |-> "feasible"]
    /\ solved[3] = [rank |-> 0, out |-> "raises"]
    /\ cable_rank[line_id] = 1

SettledPath == find_lines_between_given_line_and_ext_grid(line, ext_grid, line_id)

\* one sweep of check_downstream_line_size: every ranked line of the path
\* that is smaller than the settled line gains one step, nothing else moves,
\* and sizing moves on exactly when the sweep made no bump
SweepStep ==
    (cpc = "check" /\ cpc' \in {"for", "adjust"}) =>
        /\ \A m \in LineIds :
              cable_rank'[m] =
                  IF m \in SettledPath /\ cable_rank[m] # NoRank /\ cable_rank[m] < cable_rank[line_id]
                  THEN cable_rank[m] + 1
                  ELSE cable_rank[m]
        /\ (cpc' = "for") <=> (cable_rank' = cable_rank)

\* C19 as stated: when the next line is taken up, every line on the settled
\* line's path to the external grid has a rank at least the settled line's
C19_EveryPathLineAtLeast ==
    /\ [][SweepStep]_vars
    /\ [](( cpc = "for" /\ line_id # 0) =>
             \A m \in SettledPath : cable_rank[m] >= cable_rank[line_id])

\* C19 for the lines that have a catalogue rank: smaller lines of the path
\* gain one step per sweep, sweeps repeat until none bumps, and when the next
\* line is taken up every ranked line of the path is at least the settled rank
C19_RankedPathLinesAtLeast ==
    /\ [][SweepStep]_vars
    /\ [](( cpc = "for" /\ line_id # 0) =>
             \A m \in SettledPath :
                 cable_rank[m] # NoRank => cable_rank[m] >= cable_rank[line_id])

\* line 2 stays at rank 2 behind line 1, which had been sized down to rank 0:
\* a first sweep has raised line 1 to rank 1 and sizing has not moved on
C19_Witness ==
    /\ cpc = "adjust"
    /\ line_id = 2
    /\ line[2].from_bus = 1
    /\ ext_grid[1].bus = 0
    /\ cable_rank = <<1, 2>>
    /\ solved = <<[rank |-> 2, out |-> "violates"]>>

\* ------------------------------------------------------------------------
\* Scenario merge (merge_network_components, perform_comprehensive_sizing)
\* ------------------------------------------------------------------------
NumConverters == 1
NumLines == 1

ConverterIds == 1..NumConverters
MergeLineIds == 1..NumLines
RatingsKW == {50, 80}
AmpacitiesA == {100, 200}

\* a converter or line row: its rating and the scenario that sized the row
\* (the rest of the row: efficiency curve, rank, resistance, section)
SizedNetworks(sc) ==
    [converter : [ConverterIds -> [P : RatingsKW, sized_by : {sc}]],
     line : [MergeLineIds -> [max_i_ka : AmpacitiesA, sized_by : {sc}]]]

merge_network_components_keep_base(base_network, comparison_network) == base_network

merge_network_components(base_network, comparison_network) ==
    [converter |-> [c \in DOMAIN base_network.converter |->
                       IF comparison_network.converter[c].P > base_network.converter[c].P
                       THEN comparison_network.converter[c]
                       ELSE base_network.converter[c]],
     line |-> [l \in DOMAIN base_network.line |->
                       IF comparison_network.line[l].max_i_ka > base_network.line[l].max_i_ka
                       THEN comparison_network.line[l]
                       ELSE base_network.line[l]]]

InitMerge ==
    /\ scenario \in [{1, 2, 3} -> UNION {SizedNetworks(sc) : sc \in {1, 2, 3}}]
    /\ \A sc \in {1, 2, 3} : scenario[sc] \in SizedNetworks(sc)
    /\ storage_sized \in BOOLEAN
    /\ combined_network = <<>>
    /\ final_network = <<>>
    /\ mpc = "scenarios_run"

\* perform_comprehensive_sizing, lines 251-254
MergeStorage ==
    /\ mpc = "scenarios_run"
    /\ storage_sized
    /\ combined_network' = merge_network_components(scenario[2], scenario[1])
    /\ mpc' = "combined"
    /\ UNCHANGED <<scenario, storage_sized, final_network>>
    /\ UNCHANGED <<hvars, pvars, cvars, bvars, dvars, xvars, yvars>>

SkipStorage ==
    /\ mpc = "scenarios_run"
    /\ ~ storage_sized
    /\ combined_network' = scenario[2]
    /\ mpc' = "combined"
    /\ UNCHANGED <<scenario, storage_sized, final_network>>
    /\ UNCHANGED <<hvars, pvars, cvars, bvars, dvars, xvars, yvars>>

\* line 256
MergeFinal ==
    /\ mpc = "combined"
    /\ final_network' = merge_network_components(combined_network, scenario[3])
    /\ mpc' = "returned"
    /\ UNCHANGED <<scenario, storage_sized, combined_network>>
    /\ UNCHANGED <<hvars, pvars, cvars, bvars, dvars, xvars, yvars>>

NextMerge == MergeStorage \/ SkipStorage \/ MergeFinal

MergeStart == IdleHier /\ IdlePass /\ IdleCable /\ InitMerge /\ IdleBess /\ IdleDroop /\ IdleX /\ IdleY

SpecMerge == MergeStart /\ [][NextMerge]_vars

MaxOf(a, b) == IF a >= b THEN a ELSE b

ScenariosRun == IF storage_sized THEN {1, 2, 3} ELSE {2, 3}

\* the ratings of a network, without the rest of the rows
RatingsOf(n) ==
    [converter |-> [c \in DOMAIN n.converter |-> n.converter[c].P],
     line |-> [l \in DOMAIN n.line |-> n.line[l].max_i_ka]]

\* the scenarios that were run, merged in the order a, b, c
MergedInOrder(order) ==
    IF Len(order) = 2
    THEN merge_network_components(scenario[order[1]], scenario[order[2]])
    ELSE merge_network_components(
             merge_network_components(scenario[order[1]], scenario[order[2]]),
             scenario[order[3]])

Orders ==
    {o \in UNION {[1..n -> ScenariosRun] : n \in {2, 3}} :
        /\ Len(o) = Cardinality(ScenariosRun)
        /\ \A j, k \in 1..Len(o) : j # k => o[j] # o[k]}

\* C6: a merge keeps, per converter and line, the larger of the two ratings;
\* the returned network has the maximum rating over the scenarios run, never
\* less than any scenario's, whatever the order of the merges
C6_MergeIsMaximum ==
    /\ (mpc = "combined" /\ storage_sized) =>
          /\ \A c \in ConverterIds : combined_network.converter[c].P
                 = MaxOf(scenario[2].converter[c].P, scenario[1].converter[c].P)
          /\ \A l \in MergeLineIds : combined_network.line[l].max_i_ka
                 = MaxOf(scenario[2].line[l].max_i_ka, scenario[1].line[l].max_i_ka)
    /\ mpc = "returned" =>
          /\ \A c \in ConverterIds :
                /\ \A sc \in ScenariosRun : final_network.converter[c].P >= scenario[sc].converter[c].P
                /\ \E sc \in ScenariosRun : final_network.converter[c].P = scenario[sc].converter[c].P
          /\ \A l \in MergeLineIds :
                /\ \A sc \in ScenariosRun : final_network.line[l].max_i_ka >= scenario[sc].line[l].max_i_ka
                /\ \E sc \in ScenariosRun : final_network.line[l].max_i_ka = scenario[sc].line[l].max_i_ka
          /\ \A o \in Orders : RatingsOf(MergedInOrder(o)) = RatingsOf(final_network)

\* two scenarios size the same converter to 50 kW and 80 kW, the smaller first
C6_Witness ==
    /\ mpc = "returned"
    /\ storage_sized
    /\ scenario[2].converter[1].P = 50
    /\ scenario[1].converter[1].P = 80
    /\ scenario[3].converter[1].P = 50
    /\ final_network.converter[1].P = 80
    /\ final_network.converter[1].sized_by = 1

\* ------------------------------------------------------------------------
\* Battery droop with state of charge (interpolate_bess_p_droop)
\* Exact arithmetic: a number is a fraction <<numerator, denominator>> with a
\* positive denominator; power in kW, energy in kWh, duration in minutes
\* ------------------------------------------------------------------------
MaxPower == 3
MaxEnergy == 2

soc_lower_limit == 10
soc_higher_limit == 95

SocValues == {5, 10, 11, 50, 94, 95, 100}
Durations == {15, 60}

FracLeq(a, b) == a[1] * b[2] <= b[1] * a[2]
FracLess(a, b) == a[1] * b[2] < b[1] * a[2]
FracEq(a, b) == a[1] * b[2] = b[1] * a[2]

\* lines 1223-1225: soc_change = ((p_droop * duration) / max_energy) * 100
projected_soc(s, e, d, p) == <<p * d * 100 + s * 60 * e, 60 * e>>

\* lines 1228-1230 and 1232-1234: the power that reaches the limit exactly
clamp_to(limit, s, e, d) ==
    [p_droop |-> <<(limit - s) * 60 * e, 100 * d>>,
     soc_final |-> <<s + (limit - s), 1>>]

interpolate_bess_p_droop_soc_only(s, e, d, p) ==
    IF FracLeq(projected_soc(s, e, d, p), <<soc_lower_limit, 1>>)
    THEN [p_droop |-> <<p, 1>>, soc_final |-> <<soc_lower_limit, 1>>]
    ELSE IF FracLess(<<soc_higher_limit, 1>>, projected_soc(s, e, d, p))
         THEN [p_droop |-> <<p, 1>>, soc_final |-> <<soc_higher_limit, 1>>]
         ELSE [p_droop |-> <<p, 1>>, soc_final |-> projected_soc(s, e, d, p)]

interpolate_bess_p_droop(s, e, d, p) ==
    IF FracLeq(projected_soc(s, e, d, p), <<soc_lower_limit, 1>>)
    THEN clamp_to(soc_lower_limit, s, e, d)
    ELSE IF FracLess(<<soc_higher_limit, 1>>, projected_soc(s, e, d, p))
         THEN clamp_to(soc_higher_limit, s, e, d)
         ELSE [p_droop |-> <<p, 1>>, soc_final |-> projected_soc(s, e, d, p)]

InitBess ==
    /\ soc_init \in SocValues
    /\ max_energy \in 1..MaxEnergy
    /\ duration \in Durations
    /\ p_request \in (0 - MaxPower)..MaxPower
    /\ p_droop = <<0, 1>>
    /\ soc_final = <<0, 1>>
    /\ bpc = "call"

BessCall ==
    /\ bpc = "call"
    /\ p_droop' = interpolate_bess_p_droop(soc_init, max_energy, duration, p_request).p_droop
    /\ soc_final' = interpolate_bess_p_droop(soc_init, max_energy, duration, p_request).soc_final
    /\ bpc' = "returned"
    /\ UNCHANGED <<soc_init, max_energy, duration, p_request>>
    /\ UNCHANGED <<hvars, pvars, cvars, mvars, dvars, xvars, yvars>>

NextBess == BessCall

BessStart == IdleHier /\ IdlePass /\ IdleCable /\ IdleMerge /\ InitBess /\ IdleDroop /\ IdleX /\ IdleY

SpecBess == BessStart /\ [][NextBess]_vars

Projected == projected_soc(soc_init, max_energy, duration, p_request)

\* the returned power changes the state of charge by exactly delta percent
PowerReaches(delta) == p_droop[1] * duration * 100 = delta * 60 * max_energy * p_droop[2]

\* C7: from an initial SOC in [10, 95] the returned SOC is in [10, 95]; a
\* projection below 10 or above 95 returns the bound with the power that
\* reaches it exactly, otherwise the power and the projection are returned
C7_SocClamped ==
    (bpc = "returned" /\ soc_init >= soc_lower_limit /\ soc_init <= soc_higher_limit) =>
        /\ FracLeq(<<soc_lower_limit, 1>>, soc_final)
        /\ FracLeq(soc_final, <<soc_higher_limit, 1>>)
        /\ FracLess(Projected, <<soc_lower_limit, 1>>) =>
              (soc_final = <<soc_lower_limit, 1>> /\ PowerReaches(soc_lower_limit - soc_init))
        /\ FracLess(<<soc_higher_limit, 1>>, Projected) =>
              (soc_final = <<soc_higher_limit, 1>> /\ PowerReaches(soc_higher_limit - soc_init))
        /\ (FracLeq(<<soc_lower_limit, 1>>, Projected) /\ FracLeq(Projected, <<soc_higher_limit, 1>>)) =>
              (FracEq(p_droop, <<p_request, 1>>) /\ FracEq(soc_final, Projected))

\* a discharge request that would take the battery from 50 % below 10 %
C7_Witness ==
    /\ bpc = "returned"
    /\ soc_init = 50
    /\ FracLess(Projected, <<soc_lower_limit, 1>>)
    /\ soc_final = <<10, 1>>
    /\ p_request < 0
    /\ ~ FracEq(p_droop, <<p_request, 1>>)

\* ------------------------------------------------------------------------
\* The two fixed-point loops of a time step: the PDU droop loop of
\* perform_dc_load_flow and the asset droop loop of
\* perform_dc_load_flow_with_droop.  Voltages are integers in units of
\* 1e-8 p.u.; the asset error is an integer in units of its tolerance 1e-2.
\* ------------------------------------------------------------------------
MaxPDU == 1

pdu_tol == 1
pdu_max_passes == 100
initial_err == 100000000
initial_diff_volt == 1000000000
tol == 1
max_it == 200
initial_error == 100

\* bus voltages a solve can produce: 1 p.u. and 1 p.u. + 2e-8
VoltLevels == {100000000, 100000002}
\* values compute_error can produce: within and above the tolerance
AssetErrors == {0, 2}

Abs(x) == IF x < 0 THEN 0 - x ELSE x

RECURSIVE SumAbsDiff(_, _)
SumAbsDiff(a, b) ==
    IF Len(a) = 0 THEN 0
    ELSE Abs(Head(a) - Head(b)) + SumAbsDiff(Tail(a), Tail(b))

VoltLists(n) == [1..n -> VoltLevels]

\* the while test of the PDU droop loop
pdu_loop_continues_cap_inclusive(e, prev, diff, passes) ==
    (e > pdu_tol /\ SumAbsDiff(prev, diff) > pdu_tol) /\ passes <= pdu_max_passes

pdu_loop_continues(e, prev, diff, passes) ==
    (e > pdu_tol /\ SumAbsDiff(prev, diff) > pdu_tol) /\ passes < pdu_max_passes

\* the while test of the asset droop loop
asset_loop_continues(e, it) == Abs(e) > tol /\ it < max_it

InitDroop ==
    /\ nPDU \in 0..MaxPDU
    /\ pdu_i = 0 /\ err = 0 /\ prev_diff_volt = <<>> /\ diff_volt = <<>>
    /\ ret = "none" /\ nb_it = 0 /\ error = 0
    /\ dpc = "timestep"

\* entry of perform_dc_load_flow with PDU_droop_control=True
pdu_loop_entry(caller) ==
    /\ err' = initial_err
    /\ prev_diff_volt' = [k \in 1..nPDU |-> 0]
    /\ diff_volt' = [k \in 1..nPDU |-> initial_diff_volt]
    /\ pdu_i' = 0
    /\ ret' = caller
    /\ dpc' = "pdu_while"

\* perform_timestep calls perform_dc_load_flow
TimestepCall ==
    /\ dpc = "timestep"
    /\ pdu_loop_entry("timestep")
    /\ UNCHANGED <<nPDU, nb_it, error>>
    /\ UNCHANGED <<hvars, pvars, cvars, mvars, bvars, xvars, yvars>>

\* one pass of the PDU droop loop: the orchestration pass, then the
\* voltages on the two sides of every PDU link
PduPass(v_upstream, v_downstream) ==
    /\ dpc = "pdu_while"
    /\ pdu_loop_continues(err, prev_diff_volt, diff_volt, pdu_i)
    /\ pdu_i' = pdu_i + 1
    /\ err' = SumAbsDiff(v_upstream, v_downstream)
    /\ prev_diff_volt' = diff_volt
    /\ diff_volt' = v_downstream
    /\ UNCHANGED <<nPDU, ret, nb_it, error, dpc>>
    /\ UNCHANGED <<hvars, pvars, cvars, mvars, bvars, xvars, yvars>>

\* the while test fails: merge the subnetwork results and clean the network
PduExit ==
    /\ dpc = "pdu_while"
    /\ ~ pdu_loop_continues(err, prev_diff_volt, diff_volt, pdu_i)
    /\ dpc' = "pdu_return"
    /\ UNCHANGED <<nPDU, pdu_i, err, prev_diff_volt, diff_volt, ret, nb_it, error>>
    /\ UNCHANGED <<hvars, pvars, cvars, mvars, bvars, xvars, yvars>>

\* return to perform_timestep, which calls perform_dc_load_flow_with_droop
PduReturnToTimestep ==
    /\ dpc = "pdu_return" /\ ret = "timestep"
    /\ dpc' = "asset_start"
    /\ UNCHANGED <<nPDU, pdu_i, err, prev_diff_volt, diff_volt, ret, nb_it, error>>
    /\ UNCHANGED <<hvars, pvars, cvars, mvars, bvars, xvars, yvars>>

\* perform_dc_load_flow_with_droop: initialisation and the initial load flow
AssetStart ==
    /\ dpc = "asset_start"
    /\ error' = initial_error
    /\ nb_it' = 0
    /\ pdu_loop_entry("asset_initial")
    /\ UNCHANGED nPDU
    /\ UNCHANGED <<hvars, pvars, cvars, mvars, bvars, xvars, yvars>>

PduReturnToAssetStart ==
    /\ dpc = "pdu_return" /\ ret = "asset_initial"
    /\ dpc' = "asset_while"
    /\ UNCHANGED <<nPDU, pdu_i, err, prev_diff_volt, diff_volt, ret, nb_it, error>>
    /\ UNCHANGED <<hvars, pvars, cvars, mvars, bvars, xvars, yvars>>

\* the body of the asset droop loop up to its load flow
AssetIterate ==
    /\ dpc = "asset_while"
    /\ asset_loop_continues(error, nb_it)
    /\ pdu_loop_entry("asset_iteration")
    /\ UNCHANGED <<nPDU, nb_it, error>>
    /\ UNCHANGED <<hvars, pvars, cvars, mvars, bvars, xvars, yvars>>

\* the rest of the body: compute_error and the iteration counter
PduReturnToAssetIteration(e) ==
    /\ dpc = "pdu_return" /\ ret = "asset_iteration"
    /\ error' = e
    /\ nb_it' = nb_it + 1
    /\ dpc' = "asset_while"
    /\ UNCHANGED <<nPDU, pdu_i, err, prev_diff_volt, diff_volt, ret>>
    /\ UNCHANGED <<hvars, pvars, cvars, mvars, bvars, xvars, yvars>>

\* the while test fails: the state of charge is written and net is returned
AssetExit ==
    /\ dpc = "asset_while"
    /\ ~ asset_loop_continues(error, nb_it)
    /\ dpc' = "returned"
    /\ UNCHANGED <<nPDU, pdu_i, err, prev_diff_volt, diff_volt, ret, nb_it, error>>
    /\ UNCHANGED <<hvars, pvars, cvars, mvars, bvars, xvars, yvars>>

NextDroop ==
    \/ TimestepCall
    \/ \E v_upstream \in VoltLists(nPDU), v_downstream \in VoltLists(nPDU) :
          PduPass(v_upstream, v_downstream)
    \/ PduExit
    \/ PduReturnToTimestep
    \/ AssetStart
    \/ PduReturnToAssetStart
    \/ AssetIterate
    \/ \E e \in AssetErrors : PduReturnToAssetIteration(e)
    \/ AssetExit

DroopStart == IdleHier /\ IdlePass /\ IdleCable /\ IdleMerge /\ IdleBess /\ InitDroop /\ IdleX /\ IdleY

SpecDroop == DroopStart /\ [][NextDroop]_vars

VoltageDelta == SumAbsDiff(prev_diff_volt, diff_volt)

\* C8: the PDU droop loop leaves before its cap of 100 passes only when both
\* the summed voltage difference and the change of the tracked voltages
\* between two passes are below 1e-8
C8_StopsEarlyOnlyWhenBoth ==
    (dpc = "pdu_return" /\ pdu_i < pdu_max_passes) =>
        (err < pdu_tol /\ VoltageDelta < pdu_tol)

\* C9: the PDU droop loop runs at most 100 passes and the asset droop loop at
\* most 200 iterations; at a cap without convergence no further pass can
\* start and the loop leaves through its normal exit
C9_LoopsCapped ==
    /\ pdu_i <= pdu_max_passes
    /\ nb_it <= max_it
    /\ (dpc = "pdu_while" /\ pdu_i >= pdu_max_passes) =>
          /\ ENABLED PduExit
          /\ ~ ENABLED (\E v_upstream \in VoltLists(nPDU), v_downstream \in VoltLists(nPDU) :
                           PduPass(v_upstream, v_downstream))
    /\ (dpc = "asset_while" /\ nb_it >= max_it) =>
          (ENABLED AssetExit /\ ~ ENABLED AssetIterate)

\* both loops ran into their caps without converging and the time step returned
C9_Witness ==
    /\ dpc = "returned"
    /\ nb_it = max_it
    /\ Abs(error) > tol
    /\ pdu_i = pdu_max_passes
    /\ err > pdu_tol
    /\ VoltageDelta > pdu_tol

\* ------------------------------------------------------------------------
\* Converter sizing (utilities_load_flow.py: adjust_converter_sizing,
\* select_converter_based_on_power)
\* ------------------------------------------------------------------------
MaxCatalogue == 3
NominalPowers == {10, 20, 50}          \* 'Nominal power (kW)' of catalogue rows
ObservedPowers == {-45, -17, 0, 9, 17, 45, 60}   \* res_converter.p_mw * 1000
SizingFactors == {10, 20}              \* security margins, in percent
ConverterTypes == {"AC/DC", "DC/DC", "DC/AC"}

\* non-empty catalogues: _add_converter_from_catalogue takes idxmin of the
\* filtered catalogue and resets its index, so row 0 exists
Catalogues == UNION {[1..n -> NominalPowers] : n \in 1..MaxCatalogue}

sizing_factor_other(type, acdc, other) == other
\* if 'AC/DC' in tmp_cc.loc[0, 'Converter type']: AC_DC_factor else converter_factor
sizing_factor(type, acdc, other) == IF type = "AC/DC" THEN acdc ELSE other

\* rows with Nominal * (1 - factor/100) > abs(power_mw*1000), in exact
\* arithmetic (both sides times 100)
filtered_tmp_cc(cc, factor, power) ==
    {i \in 1..Len(cc) : cc[i] * (100 - factor) > Abs(power) * 100}

\* pandas idxmin / idxmax: the first row holding the extreme value
idxmin(cc, rows) ==
    CHOOSE i \in rows : \A j \in rows : cc[i] < cc[j] \/ (cc[i] = cc[j] /\ i <= j)
idxmax(cc, rows) ==
    CHOOSE i \in rows : \A j \in rows : cc[i] > cc[j] \/ (cc[i] = cc[j] /\ i <= j)

\* the returned row, as its position in the catalogue (1-based here)
select_converter_based_on_power(cc, type, power, acdc, other) ==
    LET filtered == filtered_tmp_cc(cc, sizing_factor(type, acdc, other), power)
    IN  IF filtered # {}
        THEN idxmin(cc, filtered)
        ELSE idxmax(cc, 1..Len(cc))

\* _add_converter_from_catalogue starts at the smallest part of the
\* catalogue; _add_converter gives no catalogue and conv_rank None
InitSelect ==
    /\ tmp_cc \in Catalogues \cup {<<>>}
    /\ conv_rank = IF tmp_cc = <<>> THEN 0 ELSE idxmin(tmp_cc, 1..Len(tmp_cc))
    /\ conv_P \in IF tmp_cc = <<>> THEN NominalPowers ELSE {tmp_cc[conv_rank]}
    /\ conv_type \in ConverterTypes
    /\ power_kw \in ObservedPowers
    /\ AC_DC_factor \in SizingFactors
    /\ converter_factor \in SizingFactors
    /\ new_c = 0
    /\ spc = "start"

\* adjust_converter_sizing, for one converter whose conv_rank is not None:
\* select, then update_converter_attributes
SelectConverter ==
    /\ spc = "start"
    /\ conv_rank # 0
    /\ new_c' = select_converter_based_on_power(tmp_cc, conv_type, power_kw,
                                                AC_DC_factor, converter_factor)
    /\ conv_rank' = new_c'
    /\ conv_P' = tmp_cc[new_c']
    /\ spc' = "selected"
    /\ UNCHANGED <<tmp_cc, conv_type, power_kw, AC_DC_factor, converter_factor>>
    /\ UNCHANGED <<hvars, pvars, cvars, mvars, bvars, dvars, tvars, uvars, kvars, yvars>>

\* conv_rank is None: the converter is passed over
SkipConverter ==
    /\ spc = "start"
    /\ conv_rank = 0
    /\ spc' = "skipped"
    /\ UNCHANGED <<tmp_cc, conv_type, power_kw, AC_DC_factor, converter_factor, new_c,
                   conv_rank, conv_P>>
    /\ UNCHANGED <<hvars, pvars, cvars, mvars, bvars, dvars, tvars, uvars, kvars, yvars>>

\* the table holds the missing rank as NaN (a column that also holds the
\* ranks of other converters): "is not None" is true, the catalogue is None
\* and tmp_cc.loc raises
SelectWithoutCatalogueRaises ==
    /\ spc = "start"
    /\ conv_rank = 0
    /\ spc' = "attribute_error"
    /\ UNCHANGED <<tmp_cc, conv_type, power_kw, AC_DC_factor, converter_factor, new_c,
                   conv_rank, conv_P>>
    /\ UNCHANGED <<hvars, pvars, cvars, mvars, bvars, dvars, tvars, uvars, kvars, yvars>>

NextSelect == SelectConverter \/ SkipConverter \/ SelectWithoutCatalogueRaises

SelectStart ==
    /\ IdleHier /\ IdlePass /\ IdleCable /\ IdleMerge /\ IdleBess /\ IdleDroop
    /\ InitSelect /\ IdleSplit /\ IdleProfile /\ IdleLink /\ IdleY

SpecSelect == SelectStart /\ [][NextSelect]_vars

Margin == IF conv_type = "AC/DC" THEN AC_DC_factor ELSE converter_factor
Qualifying == {i \in 1..Len(tmp_cc) : tmp_cc[i] * (100 - Margin) > Abs(power_kw) * 100}

\* C13: the selected part is a qualifying part of smallest nominal power
\* (nominal power reduced by the AC/DC margin for an AC/DC catalogue, by the
\* other margin otherwise, strictly above the absolute observed power); when
\* no part qualifies it is a part of largest nominal power
C13_SmallestQualifyingOrLargest ==
    spc = "selected" =>
        /\ new_c \in 1..Len(tmp_cc)
        /\ Qualifying # {} =>
              (new_c \in Qualifying /\ \A j \in Qualifying : tmp_cc[new_c] <= tmp_cc[j])
        /\ Qualifying = {} => \A j \in 1..Len(tmp_cc) : tmp_cc[new_c] >= tmp_cc[j]

\* an AC/DC catalogue where the 20 kW part passes the 10 % margin but not the
\* 20 % AC/DC margin, so the 50 kW part is selected
C13_Witness ==
    /\ spc = "selected"
    /\ conv_type = "AC/DC" /\ AC_DC_factor = 20 /\ converter_factor = 10
    /\ tmp_cc = <<50, 10, 20>> /\ power_kw = -17
    /\ new_c = 1

\* no part of the catalogue qualifies and the largest one is returned
C13_FallbackReached ==
    /\ spc = "selected" /\ Qualifying = {} /\ Len(tmp_cc) = 3
    /\ tmp_cc[new_c] = 20 /\ power_kw = 45

\* ------------------------------------------------------------------------
\* Separation into subnetworks (utilities_net_topology.py: separate_subnetworks)
\* ------------------------------------------------------------------------
NumNodes == 4
MaxLinks == 1
Nodes == 0..(NumNodes - 1)             \* net.bus.index
NodePairs == {p \in Nodes \X Nodes : p[1] < p[2]}
LinkSets == {c \in SUBSET NodePairs : Cardinality(c) <= MaxLinks}

\* the graph would also hold an edge per converter
create_nxgraph_with_converters(lines, converters) == lines \cup converters
\* top.create_nxgraph(net, include_trafos=True): every bus is a node, every
\* line an edge; the converter table is not a pandapower element and gives
\* no edge (the networks hold no transformer, switch or impedance)
create_nxgraph(lines, converters) == lines

neighbours(graph, b) ==
    {p[2] : p \in {q \in graph : q[1] = b}} \cup {p[1] : p \in {q \in graph : q[2] = b}}

\* the breadth-first search of one component, from the buses seen so far
RECURSIVE plain_bfs(_, _)
plain_bfs(graph, seen) ==
    LET next == seen \cup UNION {neighbours(graph, b) : b \in seen}
    IN  IF next = seen THEN seen ELSE plain_bfs(graph, next)

\* top.connected_components: buses in index order, one search per bus that
\* no earlier component holds
RECURSIVE connected_components(_, _)
connected_components(graph, unseen) ==
    IF unseen = {} THEN <<>>
    ELSE LET source == CHOOSE b \in unseen : \A c \in unseen : b <= c
             component == plain_bfs(graph, {source})
         IN  <<component>> \o connected_components(graph, unseen \ component)

separate_subnetworks(lines, converters) ==
    connected_components(create_nxgraph(lines, converters), Nodes)

InitSplit ==
    /\ line_ends \in SUBSET NodePairs
    /\ converter_ends \in LinkSets
    /\ subnetwork_list = <<>>
    /\ tpc = "start"

SeparateSubnetworks ==
    /\ tpc = "start"
    /\ subnetwork_list' = separate_subnetworks(line_ends, converter_ends)
    /\ tpc' = "separated"
    /\ UNCHANGED <<line_ends, converter_ends>>
    /\ UNCHANGED <<hvars, pvars, cvars, mvars, bvars, dvars, svars, uvars, kvars, yvars>>

NextSplit == SeparateSubnetworks

SplitStart ==
    /\ IdleHier /\ IdlePass /\ IdleCable /\ IdleMerge /\ IdleBess /\ IdleDroop
    /\ IdleSelect /\ InitSplit /\ IdleProfile /\ IdleLink /\ IdleY

SpecSplit == SplitStart /\ [][NextSplit]_vars

\* the buses joined by a path of lines: reflexive, symmetric, transitive
\* closure of the line relation
LineSteps ==
    {<<b, b>> : b \in Nodes} \cup line_ends \cup {<<p[2], p[1]>> : p \in line_ends}
RECURSIVE Closure(_)
Closure(R) ==
    LET RR == R \cup {<<x[1][1], x[2][2]>> : x \in {y \in R \X R : y[1][2] = y[2][1]}}
    IN  IF RR = R THEN R ELSE Closure(RR)
JoinedByLines == Closure(LineSteps)
SubnetworksOf(b) == {k \in 1..Len(subnetwork_list) : b \in subnetwork_list[k]}

\* C15: every bus is in exactly one returned subnetwork, two buses are in
\* the same subnetwork if and only if a path of lines joins them, and two
\* buses joined only through a converter are in different subnetworks
C15_PartitionByLines ==
    tpc = "separated" =>
        LET joined == JoinedByLines
            sub == [b \in Nodes |-> SubnetworksOf(b)]
        IN  /\ \A b \in Nodes : Cardinality(sub[b]) = 1
            /\ \A a, b \in Nodes : (sub[a] = sub[b]) <=> (<<a, b>> \in joined)
            /\ \A c \in converter_ends :
                  <<c[1], c[2]>> \notin joined => sub[c[1]] \cap sub[c[2]] = {}

\* buses 0-1-2 joined by lines, bus 3 without a line and joined to bus 2 by a
\* converter only: two subnetworks, bus 3 a singleton
C15_Witness ==
    /\ tpc = "separated"
    /\ line_ends = {<<0, 1>>, <<1, 2>>}
    /\ converter_ends = {<<2, 3>>}
    /\ subnetwork_list = <<{0, 1, 2}, {3}>>

\* ------------------------------------------------------------------------
\* Time series (utilities_load_flow.py: perform_timestep_dc_load_flow,
\* update_network, droop_correction, interpolate_p_droop), for one asset
\* that has a profile
\* ------------------------------------------------------------------------
MaxSteps == 3
MaxProfile == 3
ProfileValues == {1, 2}                \* profile entries, as multiples of p_nom_mw
DroopFactors == {0, 1}                 \* np.interp(v_asset, v_droop_curve, p_droop_curve)
AssetTables == {"load", "sgen", "storage"}
Profiles == UNION {[1..n -> ProfileValues] : n \in 1..MaxProfile}

\* power_profile[t] of a 1-d array (0-based in the source) raises IndexError
\* when t is not below its length
raises_IndexError(profile, t) == ~(t < Len(profile))
profile_at(profile, t) == profile[t + 1]
\* power_profile[-1]
profile_last(profile) == profile[Len(profile)]

\* the setpoint written by update_network and whether it warns
update_network_p_mw(profile, t) ==
    IF t < Len(profile) THEN profile_at(profile, t) ELSE profile_last(profile)
update_network_warns(profile, t) == ~(t < Len(profile))

\* the base setpoint of interpolate_p_droop: power_profile[t] * p_nom_mw
droop_p_setpoint(profile, t) == profile_at(profile, t)

InitProfile ==
    /\ power_profile \in Profiles
    /\ number_of_timestep \in 1..MaxSteps
    /\ attr \in AssetTables
    /\ tstep = 0
    /\ asset_p_mw = 0
    /\ warned = FALSE
    /\ upc = "for_t"

\* for t in range(number_of_timestep): if number_of_timestep > 1: update_network(net, t)
UpdateNetwork ==
    /\ upc = "for_t"
    /\ tstep < number_of_timestep
    /\ IF number_of_timestep > 1
       THEN /\ asset_p_mw' = update_network_p_mw(power_profile, tstep)
            /\ warned' = update_network_warns(power_profile, tstep)
       ELSE UNCHANGED <<asset_p_mw, warned>>
    /\ upc' = "droop"
    /\ UNCHANGED <<power_profile, number_of_timestep, attr, tstep>>
    /\ UNCHANGED <<hvars, pvars, cvars, mvars, bvars, dvars, svars, tvars, kvars, yvars>>

\* perform_dc_load_flow_with_droop: the first droop_correction of the step
\* (the loop body runs at least once, error starts at 1 > tol)
DroopCorrection(factor) ==
    /\ upc = "droop"
    /\ IF raises_IndexError(power_profile, tstep)
       THEN upc' = "index_error" /\ UNCHANGED asset_p_mw
       ELSE /\ upc' = "snapshot"
            /\ asset_p_mw' = factor * droop_p_setpoint(power_profile, tstep)
    /\ UNCHANGED <<power_profile, number_of_timestep, attr, tstep, warned>>
    /\ UNCHANGED <<hvars, pvars, cvars, mvars, bvars, dvars, svars, tvars, kvars, yvars>>

\* net_snapshots.append, fill_result_dataframe, next t
NextTimestep ==
    /\ upc = "snapshot"
    /\ tstep' = tstep + 1
    /\ warned' = FALSE
    /\ upc' = "for_t"
    /\ UNCHANGED <<power_profile, number_of_timestep, attr, asset_p_mw>>
    /\ UNCHANGED <<hvars, pvars, cvars, mvars, bvars, dvars, svars, tvars, kvars, yvars>>

ReturnSnapshots ==
    /\ upc = "for_t"
    /\ tstep = number_of_timestep
    /\ upc' = "returned"
    /\ UNCHANGED <<power_profile, number_of_timestep, attr, tstep, asset_p_mw, warned>>
    /\ UNCHANGED <<hvars, pvars, cvars, mvars, bvars, dvars, svars, tvars, kvars, yvars>>

NextProfile ==
    \/ UpdateNetwork
    \/ \E factor \in DroopFactors : DroopCorrection(factor)
    \/ NextTimestep
    \/ ReturnSnapshots

ProfileStart ==
    /\ IdleHier /\ IdlePass /\ IdleCable /\ IdleMerge /\ IdleBess /\ IdleDroop
    /\ IdleSelect /\ IdleSplit /\ InitProfile /\ IdleLink /\ IdleY

SpecProfile == ProfileStart /\ [][NextProfile]_vars

\* C16: with more than one time step, update_network sets the setpoint from
\* the profile value at index t, or from the last value with a warning when
\* the profile has fewer than t+1 entries, and a short profile makes no time
\* step fail, in update_network or in the droop correction after it
C16_ShortProfileNeverFails ==
    number_of_timestep > 1 =>
        /\ upc = "droop" =>
              IF tstep < Len(power_profile)
              THEN asset_p_mw = power_profile[tstep + 1] /\ ~warned
              ELSE asset_p_mw = power_profile[Len(power_profile)] /\ warned
        /\ upc # "index_error"

\* update_network alone behaves as stated
C16_UpdateNetworkClamps ==
    (number_of_timestep > 1 /\ upc = "droop") =>
        IF tstep < Len(power_profile)
        THEN asset_p_mw = power_profile[tstep + 1] /\ ~warned
        ELSE asset_p_mw = power_profile[Len(power_profile)] /\ warned

\* the step whose index is the profile's length: update_network warned and
\* used the last value, the droop correction raised
C16_ShortProfileFails ==
    /\ upc = "index_error"
    /\ number_of_timestep = 3 /\ Len(power_profile) = 2 /\ tstep = 2
    /\ warned /\ asset_p_mw = power_profile[2]

\* ------------------------------------------------------------------------
\* Converter power of an upstream link (utilities_load_flow.py:
\* calculate_converter_power, interpolate_efficiency, update_upstream_network,
\* update_upstream_networks_with_results)
\* ------------------------------------------------------------------------
MaxCurve == 3
CurveStep == 10                        \* kW between two points of a curve
LinkPowers == {-15, -5, 0, 5, 15, 25}  \* kW; positive: the grid feeds the subnetwork
EffPercents == {50, 80, 100}
StandByLosses == {0, 1}                \* kW
\* curves with points at 0, CurveStep, 2*CurveStep, ... kW
EffCurves == UNION {[1..n -> EffPercents] : n \in 2..MaxCurve}
curve_x(k) == (k - 1) * CurveStep

\* np.interp(abs(power), curve kW, curve efficiency): the efficiency as a
\* fraction <<num, den>> of 1, held at the end values outside the curve
interpolate_efficiency(power, curve) ==
    LET x == Abs(power)
        n == Len(curve)
    IN  IF x >= curve_x(n) THEN <<curve[n], 100>>
        ELSE LET k == CHOOSE j \in 1..(n - 1) : curve_x(j) <= x /\ x < curve_x(j + 1)
             IN  <<curve[k] * CurveStep + (curve[k + 1] - curve[k]) * (x - curve_x(k)),
                   100 * CurveStep>>

\* adjusted_power = power * efficiency if power < 0 else power / efficiency
directed_power(power, efficiency) ==
    IF power < 0
    THEN <<power * efficiency[1], efficiency[2]>>
    ELSE <<power * efficiency[2], efficiency[1]>>

FracPlus(a, k) == <<a[1] + k * a[2], a[2]>>

\* calculate_converter_power: the standby loss is added
calculate_converter_power(power, curve, loss) ==
    FracPlus(directed_power(power, interpolate_efficiency(power, curve)), loss)

\* update_upstream_networks_with_results: no standby loss
sizing_converter_power(power, curve, loss) ==
    directed_power(power, interpolate_efficiency(power, curve))

\* power - adjusted_power, for an integer power
FracFrom(power, a) == <<power * a[2] - a[1], a[2]>>
FracAbs(a) == <<Abs(a[1]), a[2]>>

\* calculate_converter_power: power_loss = abs(power - adjusted_power)
power_loss(power, adjusted) == FracAbs(FracFrom(power, adjusted))
\* update_upstream_networks_with_results passes power - adjusted_power
sizing_power_loss(power, adjusted) == FracFrom(power, adjusted)

InitLink ==
    /\ link_power \in LinkPowers
    /\ eff_curve \in EffCurves
    /\ stand_by_loss \in StandByLosses
    /\ adjusted_power = <<0, 1>>
    /\ pl_mw = <<0, 1>>
    /\ kpc = "solved"

\* update_upstream_network, for one upstream link (normal pass)
UpdateUpstreamNetwork ==
    /\ kpc = "solved"
    /\ adjusted_power' = calculate_converter_power(link_power, eff_curve, stand_by_loss)
    /\ pl_mw' = power_loss(link_power, adjusted_power')
    /\ kpc' = "normal_pass"
    /\ UNCHANGED <<link_power, eff_curve, stand_by_loss>>
    /\ UNCHANGED <<hvars, pvars, cvars, mvars, bvars, dvars, svars, tvars, uvars, yvars>>

\* update_upstream_networks_with_results, for one upstream link (the pass
\* run during cable sizing)
UpdateUpstreamNetworksWithResults ==
    /\ kpc = "solved"
    /\ adjusted_power' = sizing_converter_power(link_power, eff_curve, stand_by_loss)
    /\ pl_mw' = sizing_power_loss(link_power, adjusted_power')
    /\ kpc' = "sizing_pass"
    /\ UNCHANGED <<link_power, eff_curve, stand_by_loss>>
    /\ UNCHANGED <<hvars, pvars, cvars, mvars, bvars, dvars, svars, tvars, uvars, yvars>>

NextLink == UpdateUpstreamNetwork \/ UpdateUpstreamNetworksWithResults

LinkStart ==
    /\ IdleHier /\ IdlePass /\ IdleCable /\ IdleMerge /\ IdleBess /\ IdleDroop
    /\ IdleSelect /\ IdleSplit /\ IdleProfile /\ InitLink /\ IdleY

SpecLink == LinkStart /\ [][NextLink]_vars

Eff == interpolate_efficiency(link_power, eff_curve)
TimesEff == <<link_power * Eff[1], Eff[2]>>
OverEff == <<link_power * Eff[2], Eff[1]>>

\* C20: in the normal pass and in the pass run during cable sizing, the
\* power installed upstream is the power p read at the temporary external
\* grid, multiplied by the efficiency e interpolated at |p| when it flows
\* toward the subnetwork (p > 0, the grid feeds the subnetwork) and divided
\* by e when it flows away from it, plus the converter's standby loss
C20_EquivalentUpstreamPower ==
    kpc \in {"normal_pass", "sizing_pass"} =>
        FracEq(adjusted_power,
               FracPlus(IF link_power > 0 THEN TimesEff ELSE OverEff, stand_by_loss))

\* what the normal pass computes: divided by e when the grid feeds the
\* subnetwork, multiplied when the subnetwork feeds back, plus standby loss
C20_NormalPassAsCoded ==
    kpc = "normal_pass" =>
        FracEq(adjusted_power,
               FracPlus(IF link_power < 0 THEN TimesEff ELSE OverEff, stand_by_loss))

\* the sizing pass installed the power without the converter's standby loss
C20_SizingPassDropsStandBy ==
    /\ kpc = "sizing_pass"
    /\ link_power = 15 /\ eff_curve = <<80, 80, 100>> /\ stand_by_loss = 1
    /\ FracEq(adjusted_power, OverEff)
    /\ ~FracEq(adjusted_power, FracPlus(OverEff, stand_by_loss))

\* C21: the loss recorded for a converter, in the normal pass and in the
\* pass run during cable sizing, equals |requested power - equivalent power|
\* and is never negative
C21_LossIsAbsoluteDifference ==
    kpc \in {"normal_pass", "sizing_pass"} =>
        /\ FracEq(pl_mw, FracAbs(FracFrom(link_power, adjusted_power)))
        /\ FracLeq(<<0, 1>>, pl_mw)

\* the normal pass alone records the absolute difference
C21_NormalPassLoss ==
    kpc = "normal_pass" =>
        /\ FracEq(pl_mw, FracAbs(FracFrom(link_power, adjusted_power)))
        /\ FracLeq(<<0, 1>>, pl_mw)

\* the sizing pass recorded a negative loss: 5 kW through a converter of
\* 50 % efficiency, 10 kW installed upstream, loss -5 kW
C21_NegativeLossRecorded ==
    /\ kpc = "sizing_pass"
    /\ link_power = 5 /\ eff_curve = <<50, 50>>
    /\ FracEq(adjusted_power, <<10, 1>>)
    /\ FracEq(pl_mw, <<0 - 5, 1>>)

\* ------------------------------------------------------------------------
\* Temporary external grids of a solved subnetwork
\* ------------------------------------------------------------------------
\* the bus at which the converter of an upstream link meets the subnetwork
\* the link belongs to
LinkBusInSubnetwork(up) ==
    IF converter[up[3]].from_bus = up[2]
    THEN converter[up[3]].to_bus
    ELSE converter[up[3]].from_bus
TemporaryGridsAt(n, b) ==
    {k \in 1..Len(sub_ext_grid[n]) :
        sub_ext_grid[n][k].name = ConverterEmulation /\ sub_ext_grid[n][k].bus = b}

\* C22: once a subnetwork is solved, each of its upstream links has one
\* temporary external grid at the bus of the subnetwork that the link's
\* converter connects to, and passes never add a second one there
C22_GridPerUpstreamLink ==
    \A n \in Range(loadflowed_subs) :
        \A k \in 1..Len(network_dict[n].up) :
            Cardinality(TemporaryGridsAt(n, LinkBusInSubnetwork(network_dict[n].up[k]))) = 1

\* subnetwork 1 (buses 1 and 2) is fed from subnetwork 0 through two
\* converters, 0-1 and 0-2; it was solved with a single temporary grid at
\* bus 1 and none at bus 2
C22_SecondLinkWithoutGrid ==
    /\ pc = "for"
    /\ busSub[0] = 0 /\ busSub[1] = 1 /\ busSub[2] = 1
    /\ converter = <<[from_bus |-> 0, to_bus |-> 1], [from_bus |-> 0, to_bus |-> 2]>>
    /\ gridSubs = {0}
    /\ loadflowed_subs = <<1>>
    /\ Len(network_dict[1].up) = 2
    /\ Cardinality(TemporaryGridsAt(1, 1)) = 1
    /\ TemporaryGridsAt(1, 2) = {}

\* ------------------------------------------------------------------------
\* Order of the ready subnetworks within a pass
\* ------------------------------------------------------------------------
Ready(m) ==
    /\ pc = "for"
    /\ m \in unprocessed
    /\ all_downstream_processed(network_dict, m, loadflowed_subs)

\* what the solve of subnetwork m reads and what it has produced so far
SubnetworkView(m, seg, sld, rs, rc) ==
    <<seg[m], sld[m], rs[m], upstream_voltage(network_dict, m, rs),
      [k \in 1..Len(network_dict[m].up) |-> rc[network_dict[m].up[k][3]]]>>

ReadyUntouched ==
    \A n, m \in unprocessed :
        (n # m /\ Ready(n) /\ Ready(m) /\ loadflowed_subs' = Append(loadflowed_subs, n))
            => SubnetworkView(m, sub_ext_grid', sub_load', res_sub', res_converter')
                   = SubnetworkView(m, sub_ext_grid, sub_load, res_sub, res_converter)

\* the pass that always takes the ready subnetwork of smallest id
RECURSIVE SmallestFirstPass(_, _, _, _, _)
SmallestFirstPass(done, seg, sld, rs, rc) ==
    LET ready == {n \in (DOMAIN network_dict) \ Range(done) :
                     /\ all_downstream_processed(network_dict, n, done)
                     /\ ~ add_upstream_ext_grids_raises(network_dict, n)}
    IN  IF ready = {} THEN <<seg, sld, rs, rc>>
        ELSE LET n == CHOOSE x \in ready : \A y \in ready : x <= y
                 eg == add_upstream_ext_grids(network_dict, n, seg[n])
             IN  SmallestFirstPass(
                     Append(done, n),
                     [seg EXCEPT ![n] = eg],
                     update_upstream_network(network_dict, n, sld),
                     [rs EXCEPT ![n] = [pass |-> 1, ext_grid |-> eg, load |-> sld[n],
                                        v |-> upstream_voltage(network_dict, n, rs)]],
                     update_converter_results(network_dict, n, rc))

FirstPassOutcome ==
    SmallestFirstPass(<<>>,
        [n \in Subs(busSub) |-> select_subnet_ext_grid(busSub, net_ext_grid, n)],
        [n \in Subs(busSub) |-> select_subnet_load(busSub, net_load, n)],
        [n \in Subs(busSub) |-> select_subnet_results(busSub, n)],
        initialize_converter_results(converter))

\* C23: processing one ready subnetwork changes neither the input nor the
\* result of another subnetwork that is ready at the same time, and the
\* outcome of a pass (elements, solved subnetworks, equivalent loads,
\* converter rows) is that of any other order of the ready subnetworks
C23_OrderIndependent ==
    /\ []((pc = "done" /\ ipass = 1)
            => <<sub_ext_grid, sub_load, res_sub, res_converter>> = FirstPassOutcome)
    /\ [][ReadyUntouched]_vars

\* three subnetworks: 2 was solved while 1 was ready too and is still waiting
C23_Witness ==
    /\ pc = "for"
    /\ NumSubs(busSub) = 3
    /\ loadflowed_subs = <<2>>
    /\ Ready(1)
    /\ Len(network_dict[1].up) = 1 /\ Len(network_dict[2].up) = 1

\* ------------------------------------------------------------------------
\* Equivalent loads of the upstream subnetworks
\* ------------------------------------------------------------------------
EquivalentLoadsAt(u, n, b) ==
    {l \in sub_load[u] : l.name = LoadOfNet /\ l.net = n /\ l.bus = b}

\* C24: for each upstream link of each solved subnetwork, the upstream
\* subnetwork holds exactly one equivalent load tagged with the solved
\* subnetwork's id at the bus where the link's converter connects, in every
\* pass; links of different converters are not merged into one load
C24_LoadPerUpstreamLink ==
    \A n \in Range(loadflowed_subs) :
        \A k \in 1..Len(network_dict[n].up) :
            Cardinality(EquivalentLoadsAt(network_dict[n].up[k][1], n,
                                          network_dict[n].up[k][2])) = 1

\* subnetwork 0 (buses 0 and 1) feeds subnetwork 1 (bus 2) through two
\* converters, 0-2 and 1-2; after the solve of subnetwork 1 there is one
\* equivalent load, at bus 0, and none at bus 1
C24_LinksMergedIntoOneLoad ==
    /\ pc = "for"
    /\ busSub[0] = 0 /\ busSub[1] = 0 /\ busSub[2] = 1
    /\ converter = <<[from_bus |-> 0, to_bus |-> 2], [from_bus |-> 1, to_bus |-> 2]>>
    /\ gridSubs = {0}
    /\ loadflowed_subs = <<1>>
    /\ Cardinality(EquivalentLoadsAt(0, 1, 0)) = 1
    /\ EquivalentLoadsAt(0, 1, 1) = {}

\* ------------------------------------------------------------------------
\* What sizing leaves alone
\* ------------------------------------------------------------------------
UnrankedLines == {m \in DOMAIN cable_rank : cable_rank[m] = NoRank}

CableSizingFrame ==
    /\ \A m \in UnrankedLines : cable_rank'[m] = cable_rank[m]
    /\ DOMAIN cable_rank' = DOMAIN cable_rank
    /\ line' = line
    /\ ext_grid' = ext_grid

\* C25: through the cable trials and the consistency bumps of other lines, a
\* line without a cable_rank keeps its catalogue row (resistance, ampacity,
\* section), and no line or bus is added or removed
C25_UnrankedLinesKept == [][CableSizingFrame]_vars

\* line 2, behind the unranked line 1, went through its trials down to rank
\* 0 and its downstream check; line 1 still has no rank
C25_Witness ==
    /\ cpc = "for"
    /\ remaining = {}
    /\ line[2].from_bus = 1
    /\ cable_rank[1] = NoRank
    /\ cable_rank[2] = 0
    /\ Len(solved) = CatalogueLen

\* a converter without a catalogue keeps its rating and its (missing) rank
\* through converter sizing
ConverterSizingFrame == conv_rank = 0 => (conv_P' = conv_P /\ conv_rank' = conv_rank)
C25_ConverterWithoutCatalogueKept == [][ConverterSizingFrame]_vars

\* ------------------------------------------------------------------------
\* State of charge over the time steps (perform_timestep_dc_load_flow,
\* perform_dc_load_flow_with_droop, droop_correction)
\* Energies and step lengths are chosen so that every state of charge is a
\* whole percentage
\* ------------------------------------------------------------------------
MaxIt == 2

StorageTables == {<<"Battery 1">>, <<"EV 1", "Battery 1">>, <<"Battery 1", "Battery 2">>}
StorageEnergies == {5, 10}
StepMinutes == {30, 60}
RequestedPowers == {0 - MaxPower, 0 - 1, 1}
initial_soc_percent == 50

\* 'Battery' in net.storage.loc[i, 'name']
is_battery(name) == name \in {"Battery 1", "Battery 2"}

battery_rows(names) == SelectSeq([i \in 1..Len(names) |-> i], LAMBDA i : is_battery(names[i]))

\* the counter c of the rows that are batteries, up to row i
battery_position(names, i) == Cardinality({j \in 1..i : is_battery(names[j])})

\* a state of charge returned as a fraction, as the whole percentage it is
whole_percent(f) == f[1] \div f[2]

\* as droop_correction, but storing the state of charge of every call
droop_correction_storing(names, soc, e, d, req) ==
    [p_mw |-> [i \in DOMAIN names |->
                  IF is_battery(names[i])
                  THEN interpolate_bess_p_droop(soc[i], e[i], d, req[i]).p_droop
                  ELSE <<req[i], 1>>],
     soc_list |-> [c \in 1..Len(battery_rows(names)) |->
                      interpolate_bess_p_droop(soc[battery_rows(names)[c]],
                                               e[battery_rows(names)[c]], d,
                                               req[battery_rows(names)[c]]).soc_final],
     soc_percent |-> [i \in DOMAIN names |->
                  IF is_battery(names[i])
                  THEN whole_percent(interpolate_bess_p_droop(soc[i], e[i], d, req[i]).soc_final)
                  ELSE soc[i]]]

\* droop_correction: every row gets its droop power; a battery's state of
\* charge is computed from the stored soc_percent and appended to soc_list;
\* the storage table's soc_percent is left as it is
droop_correction(names, soc, e, d, req) ==
    [p_mw |-> [i \in DOMAIN names |->
                  IF is_battery(names[i])
                  THEN interpolate_bess_p_droop(soc[i], e[i], d, req[i]).p_droop
                  ELSE <<req[i], 1>>],
     soc_list |-> [c \in 1..Len(battery_rows(names)) |->
                      interpolate_bess_p_droop(soc[battery_rows(names)[c]],
                                               e[battery_rows(names)[c]], d,
                                               req[battery_rows(names)[c]]).soc_final],
     soc_percent |-> soc]

\* the loop after the droop iterations: the batteries take soc_list in order
store_soc(names, soc, sl) ==
    [i \in DOMAIN names |->
        IF is_battery(names[i]) THEN whole_percent(sl[battery_position(names, i)]) ELSE soc[i]]

InitSoc ==
    /\ storage_name \in StorageTables
    /\ storage_soc = [i \in DOMAIN storage_name |-> initial_soc_percent]
    /\ storage_p_mw = [i \in DOMAIN storage_name |-> <<0, 1>>]
    /\ storage_max_e \in [DOMAIN storage_name -> StorageEnergies]
    /\ step_minutes \in StepMinutes
    /\ soc_list = <<>>
    /\ soc_t = 0
    /\ soc_it = 0
    /\ qpc = "step"

\* one turn of the for loop up to the while loop of
\* perform_dc_load_flow_with_droop: error = 1, nb_it = 0
TimestepStart ==
    /\ qpc = "step"
    /\ soc_t < MaxSteps
    /\ soc_it' = 0
    /\ soc_list' = <<>>
    /\ qpc' = "while"
    /\ UNCHANGED <<storage_name, storage_soc, storage_p_mw, storage_max_e, step_minutes, soc_t>>
    /\ UNCHANGED <<hvars, pvars, cvars, mvars, bvars, dvars, xvars, gvars>>

\* one turn of the while loop; the error it ends with is above or below tol,
\* and MaxIt stands for max_it
DroopIteration(req, converged) ==
    /\ qpc = "while"
    /\ storage_p_mw' = droop_correction(storage_name, storage_soc, storage_max_e,
                                        step_minutes, req).p_mw
    /\ soc_list' = droop_correction(storage_name, storage_soc, storage_max_e,
                                    step_minutes, req).soc_list
    /\ storage_soc' = droop_correction(storage_name, storage_soc, storage_max_e,
                                       step_minutes, req).soc_percent
    /\ soc_it' = soc_it + 1
    /\ qpc' = IF converged \/ soc_it' = MaxIt THEN "store" ELSE "while"
    /\ UNCHANGED <<storage_name, storage_max_e, step_minutes, soc_t>>
    /\ UNCHANGED <<hvars, pvars, cvars, mvars, bvars, dvars, xvars, gvars>>

\* the state of charge is written, the snapshot is taken, t advances
StoreSoc ==
    /\ qpc = "store"
    /\ storage_soc' = store_soc(storage_name, storage_soc, soc_list)
    /\ soc_t' = soc_t + 1
    /\ qpc' = "step"
    /\ UNCHANGED <<storage_name, storage_p_mw, storage_max_e, step_minutes, soc_list, soc_it>>
    /\ UNCHANGED <<hvars, pvars, cvars, mvars, bvars, dvars, xvars, gvars>>

NextSoc ==
    \/ TimestepStart
    \/ \E req \in [DOMAIN storage_name -> RequestedPowers], converged \in BOOLEAN :
          DroopIteration(req, converged)
    \/ StoreSoc

SocStart ==
    /\ IdleHier /\ IdlePass /\ IdleCable /\ IdleMerge /\ IdleBess /\ IdleDroop /\ IdleX
    /\ InitSoc /\ IdleGrid

SpecSoc == SocStart /\ [][NextSoc]_vars

\* the change of row i's state of charge in this step is the one that the
\* power left in the storage table, that of the last droop iteration, gives
\* over one step
ChangeOfStoredPower(i) ==
    (storage_soc'[i] - storage_soc[i]) * 60 * storage_max_e[i] * storage_p_mw[i][2]
        = storage_p_mw[i][1] * step_minutes * 100

SocStepFrame ==
    /\ qpc = "store" =>
          \A i \in DOMAIN storage_name :
              IF is_battery(storage_name[i])
              THEN /\ ChangeOfStoredPower(i)
                   /\ storage_soc'[i] >= soc_lower_limit
                   /\ storage_soc'[i] <= soc_higher_limit
              ELSE storage_soc'[i] = storage_soc[i]
    /\ qpc # "store" => storage_soc' = storage_soc

\* every state of charge in soc_list is a whole percentage
SocListWhole == \A c \in DOMAIN soc_list : soc_list[c][1] % soc_list[c][2] = 0

\* C26: the state of charge of every battery is advanced exactly once per
\* time step, when the droop iterations are over, by the change that the
\* power of the last droop iteration gives, within the limits; no droop
\* iteration changes the stored state of charge, and the next step starts
\* from the stored one
C26_SocAdvancedOncePerStep == [][SocStepFrame]_vars /\ []SocListWhole

\* the second step has been stored after two droop iterations, the battery
\* of the second row having gone from 50 to 70 to 90 percent
C26_Witness ==
    /\ qpc = "step" /\ soc_t = 2 /\ soc_it = 2
    /\ storage_name = <<"EV 1", "Battery 1">>
    /\ storage_soc[2] = 90 /\ storage_p_mw[2] = <<1, 1>> /\ storage_max_e[2] = 5
    /\ step_minutes = 60

\* ------------------------------------------------------------------------
\* Passes per call of perform_dc_load_flow with PDU_droop_control=True
\* ------------------------------------------------------------------------

\* C27: every call of perform_dc_load_flow has run at least one pass when it
\* merges and returns, whatever the number of PDU-type converters
C27_AtLeastOnePass == dpc = "pdu_return" => pdu_i >= 1

\* what the loop gives: at least one pass when there is a PDU-type converter
C27_OnePassWithPdu == (dpc = "pdu_return" /\ nPDU >= 1) => pdu_i >= 1

\* without a PDU-type converter both voltage lists are empty, the sum of
\* their differences is 0 and the call returns without a pass
C27_NoPassWithoutPdu == dpc = "pdu_return" /\ nPDU = 0 /\ pdu_i = 0

\* ------------------------------------------------------------------------
\* The converter result rows of one pass
\* ------------------------------------------------------------------------
UpstreamLinksOf(n) == {network_dict[n].up[k][3] : k \in 1..Len(network_dict[n].up)}

\* C28: at the end of a pass every converter's result row has been written
\* exactly once, by the subnetwork that has the converter as an upstream link
C28_EachRowWrittenOnce ==
    pc = "done" =>
        \A c \in DOMAIN res_converter :
            /\ Len(res_converter[c]) = 1
            /\ c \in UpstreamLinksOf(res_converter[c][1])

\* the second pass is over; the two converters of a chain of three
\* subnetworks have been written by the two subnetworks below them
C28_Witness ==
    /\ pc = "done" /\ ipass = 2
    /\ Len(converter) = 2
    /\ res_converter[1] # res_converter[2]
    /\ \A c \in 1..2 : Len(res_converter[c]) = 1

\* ------------------------------------------------------------------------
\* Storage sizing scenario (calculate_storage_sizing_scenario)
\* ------------------------------------------------------------------------
SizingStorageTables ==
    UNION {[1..n -> [name : {"EV 1", "Battery 1", "Battery 2"}, bus : Buses,
                     in_service : {TRUE}]] : n \in 1..2}
SizingExtGrids == [1..1 -> [bus : Buses, in_service : BOOLEAN]]

in_service_rows(eg) == SelectSeq(eg, LAMBDA g : g.in_service)

\* pp.create_ext_grid(scenario_network, bus=battery['bus'], vm_pu=1.0)
create_ext_grid(eg, b) == Append(eg, [bus |-> b, in_service |-> TRUE])

battery_mask(st) == SelectSeq([i \in 1..Len(st) |-> i], LAMBDA i : is_battery(st[i].name))

InitGrid ==
    /\ sz_storage \in SizingStorageTables
    /\ sz_ext_grid \in SizingExtGrids
    /\ sz_sized = <<>>
    /\ gpc = "copied"

\* lines 44-47: the external grids and the batteries are taken out of service
Deactivate ==
    /\ gpc = "copied"
    /\ sz_ext_grid' = [k \in DOMAIN sz_ext_grid |-> [sz_ext_grid[k] EXCEPT !.in_service = FALSE]]
    /\ sz_storage' = [i \in DOMAIN sz_storage |->
                         IF is_battery(sz_storage[i].name)
                         THEN [sz_storage[i] EXCEPT !.in_service = FALSE]
                         ELSE sz_storage[i]]
    /\ gpc' = "for"
    /\ UNCHANGED sz_sized
    /\ UNCHANGED <<hvars, pvars, cvars, mvars, bvars, dvars, xvars, qvars>>

\* one turn of the loop over the batteries: the grid is created, the network
\* is sized (on a copy: the scenario network keeps its tables) and the power
\* of an external grid in service is read
SizeBattery ==
    /\ gpc = "for"
    /\ Len(sz_sized) < Len(battery_mask(sz_storage))
    /\ sz_ext_grid' = create_ext_grid(sz_ext_grid,
                                      sz_storage[battery_mask(sz_storage)[Len(sz_sized) + 1]].bus)
    /\ sz_sized' = Append(sz_sized, battery_mask(sz_storage)[Len(sz_sized) + 1])
    /\ UNCHANGED <<sz_storage, gpc>>
    /\ UNCHANGED <<hvars, pvars, cvars, mvars, bvars, dvars, xvars, qvars>>

SizingReturn ==
    /\ gpc = "for"
    /\ Len(sz_sized) = Len(battery_mask(sz_storage))
    /\ gpc' = "returned"
    /\ UNCHANGED <<sz_storage, sz_ext_grid, sz_sized>>
    /\ UNCHANGED <<hvars, pvars, cvars, mvars, bvars, dvars, xvars, qvars>>

NextGrid == Deactivate \/ SizeBattery \/ SizingReturn

GridStart ==
    /\ IdleHier /\ IdlePass /\ IdleCable /\ IdleMerge /\ IdleBess /\ IdleDroop /\ IdleX
    /\ IdleSoc /\ InitGrid

SpecGrid == GridStart /\ [][NextGrid]_vars

\* the battery of the last call of perform_load_flow_with_sizing
BatteryBeingSized == sz_storage[sz_sized[Len(sz_sized)]]

\* C29: every call of perform_load_flow_with_sizing is given a network with
\* exactly one external grid in service, at the bus of the battery being sized
C29_OneGridAtBattery ==
    sz_sized # <<>> =>
        /\ Len(in_service_rows(sz_ext_grid)) = 1
        /\ in_service_rows(sz_ext_grid)[1].bus = BatteryBeingSized.bus

\* what the loop gives: for the first battery, one grid in service, at its
\* bus, the original grid out of service
C29_FirstBatteryAlone ==
    Len(sz_sized) = 1 =>
        /\ Len(in_service_rows(sz_ext_grid)) = 1
        /\ in_service_rows(sz_ext_grid)[1].bus = BatteryBeingSized.bus
        /\ ~ sz_ext_grid[1].in_service

\* the second battery is sized with the grid of the first still in service
C29_FirstGridStillInService ==
    /\ Len(sz_sized) = 2
    /\ sz_storage[1].bus = 1 /\ sz_storage[2].bus = 2
    /\ Len(in_service_rows(sz_ext_grid)) = 2
    /\ in_service_rows(sz_ext_grid)[1].bus = 1

\* ------------------------------------------------------------------------
\* Termination of cable sizing
\* The program is sequential: a step that can be taken is taken
\* ------------------------------------------------------------------------
SpecCableFair == CableStart /\ [][NextCable]_vars /\ WF_vars(NextCable)

RankInRange ==
    \A m \in DOMAIN cable_rank :
        cable_rank[m] = NoRank \/ (cable_rank[m] >= 0 /\ cable_rank[m] <= CatalogueLen - 1)

\* adjust_cable_sizing has returned or has been left by an exception
CableSizingOver == cpc \in {"sized", "failed", "type_error"}

\* C30: cable sizing ends after finitely many trial and bump passes whatever
\* the outcomes of the trials, and the rank of every sized line stays within
\* the rows of the catalogue
C30_TerminatesInRange == []RankInRange /\ <>CableSizingOver

\* line 2, behind line 1, kept the largest cable; line 1 had been brought
\* down to the smallest and has been bumped one step: the loop of line 2
\* goes round again
C30_Witness ==
    /\ cpc = "adjust" /\ line_id = 2 /\ line[2].from_bus = 1
    /\ solved = <<[rank |-> CatalogueLen - 1, out |-> "violates"]>>
    /\ cable_rank[2] = CatalogueLen - 1
    /\ cable_rank[1] = 1

====
